---- MODULE Spec2Model ----
(***************************************************************************)
(* A model of Basalt's content layer: the durable key-value cache         *)
(* (lib/kv-cache), the in-process TTL cache and the aggregator            *)
(* (lib/api/index.ts), and the environment resolver (lib/api/env.ts).     *)
(*                                                                         *)
(* Spec      the durable cache: withKVCache and its callers, kvDelete,     *)
(*           with store operations in flight and store failures.          *)
(* SpecMem   one in-process cache of createCache under get, set, clear     *)
(*           and the clock.                                                *)
(* SpecFeed  getFeedItems: concurrent calls, their adapters in flight,     *)
(*           the in-process feed cache.                                    *)
(* SpecGate  getFeedItems' choice of adapters over the resolver's tiers.   *)
(***************************************************************************)
EXTENDS Integers, Sequences, FiniteSets, TLC

VARIABLES
    runtimeEnvWithKV,   \* kv-cache: the injected env, "null" | "noKV" | "withKV"
    globalKV,           \* kv-cache: a NOTION_CACHE binding reachable through globalThis
    store,              \* the KV namespace: key -> entry
    now,                \* the clock, in milliseconds (Date.now())
    calls,              \* the asynchronous calls, one record per call
    puts,               \* kv.put requests dispatched and not yet settled
    delDone,            \* key -> a kvDelete(key) succeeded and no cached read of key began since
    feedItemsCache,     \* index.ts: createCache's closure, [cachedData, cachedAt]
    cacheLog,           \* what the last set / clear / get of feedItemsCache was given and gave
    runtimeEnv,         \* env.ts: the injected runtime slot, a tier or NoEnv
    importMetaEnv,      \* the build-time tier, import.meta.env
    processEnv,         \* the process tier, process.env
    feedCalls,          \* the getFeedItems calls, one record per call
    envLog,             \* the last getEnv(key): its key, its result, the slot it read
    doubanFeed,         \* the media log's upstream RSS feed: its items, newest first
    current,            \* rss.ts getCurrentItems: the call in progress or finished
    archive,            \* getArchiveGroups: the caller's list and the results it got
    proxy,              \* /api/proxy-image: the requests, one record per request
    pages,              \* the document store's published article pages, newest first
    slugCall,           \* index.ts getArticleBySlug: the call in progress or finished
    idFetch,            \* an upstream RSS feed and the ids successive fetches of it gave
    overtaken,          \* the calls whose store read was in flight when a write-back landed
    afterFailure,       \* the calls that had not begun when a producer threw or gave null
    currentItemsCache,  \* index.ts: createCache's closure for getCurrentItems
    archiveItemsCache,  \* index.ts: createCache's closure for getArchiveItems
    indexCall,          \* index.ts getCurrentItems / getArchiveItems: the call of each
    pager,              \* notion.ts fetchAllArticlesInternal / fetchAllPhotosInternal: the loop
    applied             \* the pure function last applied, with its input and its result

kvVars == <<runtimeEnvWithKV, globalKV, store, calls, puts, delDone>>
memVars == <<feedItemsCache, cacheLog>>
envVars == <<runtimeEnv, importMetaEnv, processEnv>>
sideVars == <<currentItemsCache, archiveItemsCache, indexCall>>
auxVars == <<envLog, doubanFeed, current, archive, proxy, pages, slugCall, idFetch, overtaken, afterFailure, sideVars, pager, applied>>
\* The variables an action on the pager or a pure function leaves alone
notPager == <<envLog, doubanFeed, current, archive, proxy, pages, slugCall, idFetch, overtaken, afterFailure, sideVars>>
\* No pure function applied yet
NotApplied == [fn |-> "none"]
vars == <<kvVars, now, memVars, envVars, feedCalls, auxVars>>

----------------------------------------------------------------------------
(* Bounds *)
MaxIdFeedLen == 2
MaxRequests == 4
MaxStars == 2
MaxRuns == 2
MaxItems == 2
MaxFetches == 2
MaxClock == 1

MaxCalls == 3
MaxTicks == 2
KvTickMs == 1800000
MaxMemTicks == 3
MemTickMs == 100000
MaxFeedCalls == 2
MaxFeedLen == 7
MaxArchiveLen == 4
MaxProxyReqs == 2

(* Program constants *)

CACHE_TTL_SECONDS == 3600

----------------------------------------------------------------------------
(* JavaScript values, as far as the cache sees them *)

NullV == [kind |-> "null"]
Undef == [kind |-> "undefined"]
DateV(ms) == [kind |-> "Date", ms |-> ms]
InvalidDate == [kind |-> "Date", invalid |-> TRUE]
IsoStr(ms) == [kind |-> "string", iso |-> ms]
TextStr(s) == [kind |-> "string", txt |-> s]
Arr(s) == [kind |-> "Array", elems |-> s]
Obj(f) == [kind |-> "Object", fields |-> f]

\* A list item as fetchArticles / fetchPhotos build it: the only Date is `date`.
Item(id, ms) == Obj([id |-> TextStr(id), date |-> DateV(ms)])

\* JSON.stringify followed by the store's JSON.parse (kv.get(key, 'json')):
\* a Date serialises through toJSON to its ISO string, and comes back a string.
RECURSIVE JSONStringify(_)
JSONStringify(v) ==
    CASE v.kind = "Date" ->
            IF "ms" \in DOMAIN v THEN IsoStr(v.ms) ELSE NullV
      [] v.kind = "Array" ->
            Arr([i \in DOMAIN v.elems |->
                    IF v.elems[i].kind = "undefined" THEN NullV
                    ELSE JSONStringify(v.elems[i])])
      [] v.kind = "Object" ->
            \* a property whose value is undefined is left out
            Obj([k \in {f \in DOMAIN v.fields : v.fields[f].kind # "undefined"} |->
                    JSONStringify(v.fields[k])])
      [] OTHER -> v

\* The string left as it is
NewDate_KeepsString(s) == s

\* new Date(string)
NewDate(s) == IF "iso" \in DOMAIN s THEN DateV(s.iso) ELSE InvalidDate

RECURSIVE reviveDates(_)
reviveDates(obj) ==
    CASE obj.kind \in {"null", "undefined"} -> obj
      [] obj.kind = "Array" ->
            Arr([i \in DOMAIN obj.elems |-> reviveDates(obj.elems[i])])
      [] obj.kind = "Object" ->
            Obj([k \in DOMAIN obj.fields |->
                    LET value == obj.fields[k] IN
                    IF k = "date" /\ value.kind = "string" THEN NewDate(value)
                    ELSE IF value.kind \in {"Array", "Object", "Date"}
                         THEN reviveDates(value)
                         ELSE value])
      [] OTHER -> obj

\* JavaScript's !data for the values a cached dataset can be
Falsy(v) == v.kind \in {"null", "undefined"}

----------------------------------------------------------------------------
(* The durable cache *)

ARTICLES == "notion:articles:all"
PHOTOS == "notion:photos:all"
ARTICLE_P1 == "notion:article:p1"
Keys == {ARTICLES, PHOTOS, ARTICLE_P1}

CallIds == 1..MaxCalls

Absent == [json |-> Undef, exp |-> 0, by |-> 0]
Unread == [st |-> "unread", json |-> Undef, by |-> 0]

IdleCall ==
    [op |-> "none", key |-> "none", pc |-> "idle", avail |-> FALSE,
     seen |-> Unread, n |-> 0, prod |-> Undef, ret |-> Undef,
     touched |-> FALSE, setRes |-> "none", delFailed |-> FALSE,
     threwBy |-> "none", afterDel |-> FALSE,
     status |-> 0, left |-> <<>>, present |-> {}]

\* What each cached reader's producer can resolve with.
ListResults == {Arr(<<>>), Arr(<<Item("a1", 1)>>)}
ArticleResults == {NullV, Item("p1", 1)}
ProducerResults(op) == IF op = "fetchArticle" THEN ArticleResults ELSE ListResults
\* fetchArticleInternal catches everything; the list loops do not.
ProducerCanThrow(op) == op # "fetchArticle"

getKVNamespace(env, g) ==
    IF env = "withKV" THEN "kv"
    ELSE IF g THEN "kv"
    ELSE "null"

isKVAvailable(env, g) == getKVNamespace(env, g) # "null"

\* kv.get(key, 'json') on the store as it is at `t`
StoreRead(s, key, t) ==
    IF s[key] # Absent /\ t < s[key].exp THEN s[key].json ELSE NullV

\* kvGet with its try/catch left out: a rejected kv.get leaves kvGet
kvGet_NoCatch(kv, thrown, raw) ==
    IF kv = "null" THEN [data |-> NullV, error |-> TRUE, threw |-> FALSE]
    ELSE IF thrown THEN [data |-> NullV, error |-> TRUE, threw |-> TRUE]
    ELSE IF Falsy(raw) THEN [data |-> NullV, error |-> FALSE, threw |-> FALSE]
    ELSE [data |-> reviveDates(raw), error |-> FALSE, threw |-> FALSE]

\* kvGet: `raw` is what kv.get resolved with, `thrown` whether it rejected.
kvGet(kv, thrown, raw) ==
    IF kv = "null" THEN [data |-> NullV, error |-> TRUE, threw |-> FALSE]
    ELSE IF thrown THEN [data |-> NullV, error |-> TRUE, threw |-> FALSE]
    ELSE IF Falsy(raw) THEN [data |-> NullV, error |-> FALSE, threw |-> FALSE]
    ELSE [data |-> reviveDates(raw), error |-> FALSE, threw |-> FALSE]

\* kvSet once kv.put settled
kvSetResult(thrown) ==
    IF thrown THEN [success |-> FALSE] ELSE [success |-> TRUE]

\* kvDelete once kv.delete settled
kvDeleteResult(thrown) == [threw |-> FALSE]

\* `cached === null` in place of `cached !== null`
CacheHit_Inverted(cached) == cached = NullV

\* withKVCache: `cached !== null`
CacheHit(cached) == cached # NullV

\* the unavailable branch falling through to kvSet
WritesBack_Always(pc) == TRUE

\* withKVCache: kvSet is reached after a miss only; the unavailable branch
\* is `return fetcher()`. `pc` is where the call awaits its producer.
WritesBack(pc) == pc = "fetch"

\* `await kvSet(...)` before the return
AfterProducer_AwaitsSet(issued) == IF issued THEN "set" ELSE "done"

\* withKVCache after `await fetcher()`: kvSet(...).catch(...) is started and
\* not awaited, `return data` follows at once. Where the call stands next.
AfterProducer(issued) == "done"

----------------------------------------------------------------------------
(* Actions of the durable cache *)

KeyOf(op) ==
    CASE op = "getAllArticles" -> ARTICLES
      [] op = "getAllPhotos" -> PHOTOS
      [] OTHER -> ARTICLE_P1

Readers == {"getAllArticles", "getAllPhotos", "fetchArticle"}

\* Calls are numbered in the order they begin. The store keeps its keys apart,
\* so one behaviour follows the calls on one key.
CanBegin(c, key) ==
    /\ calls[c].pc = "idle"
    /\ c > 1 => calls[c - 1].pc # "idle"
    /\ \A d \in CallIds : calls[d].pc # "idle" => calls[d].key = key

\* setRuntimeKVEnv(env): an API route hands over its runtime env
SetRuntimeKVEnv(env) ==
    /\ env # runtimeEnvWithKV
    /\ runtimeEnvWithKV' = env
    /\ UNCHANGED <<globalKV, store, now, calls, puts, delDone>>
    /\ UNCHANGED <<memVars, envVars, feedCalls, auxVars>>

\* Time passes; the store drops the entries whose expirationTtl ran out.
Tick ==
    /\ now < MaxTicks * KvTickMs
    /\ now' = now + KvTickMs
    /\ store' = [k \in Keys |->
                    IF store[k] # Absent /\ now' >= store[k].exp
                    THEN Absent ELSE store[k]]
    /\ UNCHANGED <<runtimeEnvWithKV, globalKV, calls, puts, delDone>>
    /\ UNCHANGED <<memVars, envVars, feedCalls, auxVars>>

\* getAllArticles / getAllPhotos / fetchArticle, up to the first await:
\* isKVAvailable() ? withKVCache(key, producer, ttl) : producer(),
\* and inside withKVCache the same test, then kvGet's kv.get is issued.
BeginCachedRead(c, op) ==
    LET key == KeyOf(op)
        kv == getKVNamespace(runtimeEnvWithKV, globalKV)
        cached == isKVAvailable(runtimeEnvWithKV, globalKV)
        issued == cached /\ kv # "null"
    IN  /\ CanBegin(c, key)
        /\ calls' = [calls EXCEPT ![c] =
                [IdleCall EXCEPT
                    !.op = op, !.key = key, !.avail = kv # "null",
                    !.pc = IF issued THEN "get" ELSE IF cached THEN "fetch" ELSE "direct",
                    !.n = IF issued THEN 0 ELSE 1,
                    !.touched = issued,
                    !.afterDel = delDone[key]]]
        /\ delDone' = [delDone EXCEPT ![key] = FALSE]
        /\ UNCHANGED <<runtimeEnvWithKV, globalKV, store, now, puts>>
        /\ UNCHANGED <<memVars, envVars, feedCalls, auxVars>>

GetAllArticles(c) == BeginCachedRead(c, "getAllArticles")
GetAllPhotos(c) == BeginCachedRead(c, "getAllPhotos")
FetchArticle(c) == BeginCachedRead(c, "fetchArticle")

\* kv.get settles inside kvGet; withKVCache returns the hit or calls the producer.
KvGetSettle(c, thrown) ==
    /\ calls[c].pc = "get"
    /\ LET key == calls[c].key
           held == store[key] # Absent /\ now < store[key].exp
           r == kvGet("kv", thrown, StoreRead(store, key, now))
           seen == IF thrown THEN [Unread EXCEPT !.st = "threw"]
                   ELSE IF held
                        THEN [st |-> "held", json |-> store[key].json, by |-> store[key].by]
                        ELSE [Unread EXCEPT !.st = "absent"]
           base == [calls[c] EXCEPT !.seen = seen]
       IN calls' = [calls EXCEPT ![c] =
            IF r.threw
            THEN [base EXCEPT !.pc = "threw", !.threwBy = "store"]
            ELSE IF CacheHit(r.data)
                 THEN [base EXCEPT !.pc = "done", !.ret = r.data]
                 ELSE [base EXCEPT !.pc = "fetch", !.n = @ + 1]]
    /\ UNCHANGED <<runtimeEnvWithKV, globalKV, store, now, puts, delDone>>
    /\ UNCHANGED <<memVars, envVars, feedCalls, auxVars>>

\* The producer resolves with v. After a miss kvSet is started and not awaited:
\* it resolves the namespace again and issues kv.put.
FetcherResolves(c, v) ==
    /\ calls[c].pc \in {"fetch", "direct"}
    /\ v \in ProducerResults(calls[c].op)
    /\ LET writeBack == WritesBack(calls[c].pc)
           kv == getKVNamespace(runtimeEnvWithKV, globalKV)
           issued == writeBack /\ kv # "null"
       IN /\ calls' = [calls EXCEPT ![c] =
                [@ EXCEPT !.pc = AfterProducer(issued), !.prod = v, !.ret = v,
                          !.touched = @ \/ issued,
                          !.setRes = IF issued THEN "pending"
                                     ELSE IF writeBack THEN "unavailable" ELSE @]]
          /\ puts' = IF issued
                     THEN puts \cup {[by |-> c, key |-> calls[c].key,
                                      json |-> JSONStringify(v),
                                      ttl |-> CACHE_TTL_SECONDS]}
                     ELSE puts
    /\ UNCHANGED <<runtimeEnvWithKV, globalKV, store, now, delDone>>
    /\ UNCHANGED <<memVars, envVars, feedCalls>>

FetcherResolve(c, v) ==
    /\ FetcherResolves(c, v)
    /\ UNCHANGED auxVars

\* The same step, noting, when the producer gave null, the calls that have
\* not begun yet.
FetcherResolveObserved(c, v) ==
    /\ FetcherResolves(c, v)
    /\ afterFailure' = IF v = NullV
                       THEN afterFailure \cup {d \in CallIds : calls[d].pc = "idle"}
                       ELSE afterFailure
    /\ UNCHANGED <<envLog, doubanFeed, current, archive, proxy, pages, slugCall, idFetch,
                   overtaken, sideVars, pager, applied>>

\* a try/catch around `await fetcher()` that returns null
AwaitFetcherThrew_Caught(call) == [call EXCEPT !.pc = "done", !.ret = NullV]

\* withKVCache has no catch around `await fetcher()`: the call ends with the
\* producer's exception, before kvSet.
AwaitFetcherThrew(call) == [call EXCEPT !.pc = "threw", !.threwBy = "producer"]

\* The producer rejects.
FetcherThrows(c) ==
    /\ calls[c].pc \in {"fetch", "direct"}
    /\ ProducerCanThrow(calls[c].op)
    /\ calls' = [calls EXCEPT ![c] = AwaitFetcherThrew(calls[c])]
    /\ UNCHANGED <<runtimeEnvWithKV, globalKV, store, now, puts, delDone>>
    /\ UNCHANGED <<memVars, envVars, feedCalls>>

FetcherReject(c) ==
    /\ FetcherThrows(c)
    /\ UNCHANGED auxVars

\* The same step, noting the calls that have not begun yet.
FetcherRejectObserved(c) ==
    /\ FetcherThrows(c)
    /\ afterFailure' = afterFailure \cup {d \in CallIds : calls[d].pc = "idle"}
    /\ UNCHANGED <<envLog, doubanFeed, current, archive, proxy, pages, slugCall, idFetch,
                   overtaken, sideVars, pager, applied>>

\* kv.put settles inside the unawaited kvSet: the store and the call's record
KvPutLands(p, thrown) ==
    /\ p \in puts
    /\ puts' = puts \ {p}
    /\ store' = IF thrown THEN store
                ELSE [store EXCEPT ![p.key] =
                        [json |-> p.json, exp |-> now + p.ttl * 1000, by |-> p.by]]
    /\ calls' = [calls EXCEPT ![p.by] =
            [@ EXCEPT !.setRes = IF kvSetResult(thrown).success THEN "ok" ELSE "failed"]]
    /\ UNCHANGED <<runtimeEnvWithKV, globalKV, now, delDone>>
    /\ UNCHANGED <<memVars, envVars, feedCalls>>

KvPutSettle(p, thrown) ==
    /\ KvPutLands(p, thrown)
    /\ UNCHANGED auxVars

\* The same step, noting the calls whose store read was in flight when the
\* write landed.
KvPutSettleObserved(p, thrown) ==
    /\ KvPutLands(p, thrown)
    /\ overtaken' = overtaken \cup
            {d \in CallIds : ~thrown /\ calls[d].pc = "get" /\ calls[d].key = p.key}
    /\ UNCHANGED <<envLog, doubanFeed, current, archive, proxy, pages, slugCall, idFetch,
                   afterFailure, sideVars, pager, applied>>

\* kvDelete(key), up to its await
KvDeleteCall(c, key) ==
    /\ CanBegin(c, key)
    /\ LET kv == getKVNamespace(runtimeEnvWithKV, globalKV)
       IN calls' = [calls EXCEPT ![c] =
            [IdleCall EXCEPT !.op = "kvDelete", !.key = key,
                             !.avail = kv # "null",
                             !.pc = IF kv = "null" THEN "done" ELSE "del",
                             !.touched = kv # "null"]]
    /\ UNCHANGED <<runtimeEnvWithKV, globalKV, store, now, puts, delDone>>
    /\ UNCHANGED <<memVars, envVars, feedCalls, auxVars>>

\* kv.delete settles; kvDelete returns.
KvDeleteSettle(c, thrown) ==
    /\ calls[c].pc = "del"
    /\ store' = IF thrown THEN store ELSE [store EXCEPT ![calls[c].key] = Absent]
    /\ delDone' = IF thrown THEN delDone ELSE [delDone EXCEPT ![calls[c].key] = TRUE]
    /\ calls' = [calls EXCEPT ![c] =
            IF kvDeleteResult(thrown).threw
            THEN [@ EXCEPT !.pc = "threw", !.threwBy = "store", !.delFailed = thrown]
            ELSE [@ EXCEPT !.pc = "done", !.delFailed = thrown]]
    /\ UNCHANGED <<runtimeEnvWithKV, globalKV, now, puts>>
    /\ UNCHANGED <<memVars, envVars, feedCalls, auxVars>>

----------------------------------------------------------------------------
(* The in-process cache: createCache *)

\* createCache's default ttlMs
ttlMs == 5 * 60 * 1000

EmptyCache == [cachedData |-> NullV, cachedAt |-> 0]

\* get() with `<=` in place of `<`
CacheGet_Inclusive(cache, t) ==
    IF ~Falsy(cache.cachedData) /\ t - cache.cachedAt <= ttlMs
    THEN cache.cachedData ELSE NullV

\* get(): cachedData && Date.now() - cachedAt < ttlMs
CacheGet(cache, t) ==
    IF ~Falsy(cache.cachedData) /\ t - cache.cachedAt < ttlMs
    THEN cache.cachedData ELSE NullV

\* set(data)
CacheSet(data, t) == [cachedData |-> data, cachedAt |-> t]

\* clear()
CacheClear == [cachedData |-> NullV, cachedAt |-> 0]

NoGet == [done |-> FALSE, val |-> NullV, at |-> 0]
NeverSet == [val |-> NullV, at |-> 0, live |-> FALSE, by |-> 0]
EmptyLog == [lastSet |-> NeverSet, lastGet |-> NoGet]

\* A feed item as the aggregator sees it: date is date.getTime().
FeedItem(id, date, src) == [id |-> id, date |-> date, src |-> src]

\* The lists SpecMem hands to set(), an empty one among them
MemValues ==
    {Arr(<<>>), Arr(<<FeedItem("a1", 2, "articles")>>),
     Arr(<<FeedItem("t1", 1, "telegram"), FeedItem("t2", 2, "telegram")>>)}

MemSet(data) ==
    /\ feedItemsCache' = CacheSet(data, now)
    /\ cacheLog' = [lastSet |-> [val |-> data, at |-> now, live |-> TRUE, by |-> 0],
                    lastGet |-> NoGet]
    /\ UNCHANGED <<kvVars, now, envVars, feedCalls, auxVars>>

MemClear ==
    /\ feedItemsCache' = CacheClear
    /\ cacheLog' = [lastSet |-> [cacheLog.lastSet EXCEPT !.live = FALSE],
                    lastGet |-> NoGet]
    /\ UNCHANGED <<kvVars, now, envVars, feedCalls, auxVars>>

MemGet ==
    /\ cacheLog' = [cacheLog EXCEPT
            !.lastGet = [done |-> TRUE, val |-> CacheGet(feedItemsCache, now), at |-> now]]
    /\ UNCHANGED <<kvVars, now, feedItemsCache, envVars, feedCalls, auxVars>>

\* Date.now() moves on.
MemTick ==
    /\ now < MaxMemTicks * MemTickMs
    /\ now' = now + MemTickMs
    /\ UNCHANGED <<kvVars, memVars, envVars, feedCalls, auxVars>>

InitMem ==
    /\ feedItemsCache = EmptyCache
    /\ cacheLog = EmptyLog

----------------------------------------------------------------------------
(* The environment resolver and the aggregator's own lookups *)

UNDEF == "<undefined>"
OBJECT == "<object>"
NOTION_API_KEY == "NOTION_API_KEY"
NOTION_ARTICLES_DATABASE_ID == "NOTION_ARTICLES_DATABASE_ID"
DOUBAN_USER_RSS == "DOUBAN_USER_RSS"
TELEGRAM_CHANNEL_USERNAME == "TELEGRAM_CHANNEL_USERNAME"
EnvKeys ==
    {NOTION_API_KEY, NOTION_ARTICLES_DATABASE_ID, DOUBAN_USER_RSS,
     TELEGRAM_CHANNEL_USERNAME}

\* JavaScript truthiness of a looked-up entry
Truthy(x) == x \notin {UNDEF, ""}

NoTier == [k \in EnvKeys |-> UNDEF]
TierOf(keys, v) == [k \in EnvKeys |-> IF k \in keys THEN v ELSE UNDEF]
\* runtimeEnv before any setRuntimeEnv: null
NoRuntimeEnv == [set |-> FALSE, env |-> NoTier]

\* setRuntimeEnv(env): only the string entries are copied
setRuntimeEnv(env) ==
    [set |-> TRUE, env |-> [k \in EnvKeys |-> IF env[k] = OBJECT THEN UNDEF ELSE env[k]]]

\* getEnv asking import.meta.env before the runtime slot
getEnv_BuildFirst(key) ==
    IF Truthy(importMetaEnv[key]) THEN importMetaEnv[key]
    ELSE IF runtimeEnv.set /\ Truthy(runtimeEnv.env[key]) THEN runtimeEnv.env[key]
    ELSE IF Truthy(processEnv[key]) THEN processEnv[key]
    ELSE UNDEF

\* env.ts getEnv: runtime slot, then import.meta.env, then process.env
getEnv(key) ==
    IF runtimeEnv.set /\ Truthy(runtimeEnv.env[key]) THEN runtimeEnv.env[key]
    ELSE IF Truthy(importMetaEnv[key]) THEN importMetaEnv[key]
    ELSE IF Truthy(processEnv[key]) THEN processEnv[key]
    ELSE UNDEF

\* index.ts getEnv (notion.ts has the same): import.meta.env[key] || process.env[key]
IndexGetEnv(key) ==
    IF Truthy(importMetaEnv[key]) THEN importMetaEnv[key] ELSE processEnv[key]

shouldUseRealAPI ==
    Truthy(IndexGetEnv(NOTION_API_KEY)) /\ Truthy(IndexGetEnv(NOTION_ARTICLES_DATABASE_ID))
shouldUseDouban == Truthy(IndexGetEnv(DOUBAN_USER_RSS))
isTelegramConfigured == Truthy(getEnv(TELEGRAM_CHANNEL_USERNAME))
shouldUseTelegram == isTelegramConfigured

\* An API route injects its runtime env.
SetRuntimeEnv(env) ==
    /\ runtimeEnv' = setRuntimeEnv(env)
    /\ runtimeEnv' # runtimeEnv
    /\ UNCHANGED <<kvVars, now, memVars, importMetaEnv, processEnv, feedCalls, auxVars>>

InitEnv ==
    /\ runtimeEnv = NoRuntimeEnv
    /\ importMetaEnv = NoTier
    /\ processEnv = NoTier

NoLookup == [done |-> FALSE, key |-> "none", val |-> UNDEF, slot |-> NoRuntimeEnv]

\* Some caller asks the resolver for `key`.
GetEnv(key) ==
    /\ envLog' = [done |-> TRUE, key |-> key, val |-> getEnv(key), slot |-> runtimeEnv]
    /\ UNCHANGED <<kvVars, now, memVars, envVars, feedCalls>>
    /\ UNCHANGED <<doubanFeed, current, archive, proxy, pages, slugCall, idFetch, overtaken, afterFailure, sideVars, pager, applied>>

\* The tiers SpecEnv draws from: two keys, each absent, empty or set to v
TiersOver(vals) ==
    {[k \in EnvKeys |->
        IF k = DOUBAN_USER_RSS THEN x
        ELSE IF k = TELEGRAM_CHANNEL_USERNAME THEN y ELSE UNDEF] : x, y \in vals}

----------------------------------------------------------------------------
(* The aggregator: getFeedItems *)

\* mockFeedItems, in the order of the file; a date is its day as yyyymmdd.
mockFeedItems ==
    << FeedItem("article-1", 20250215, "mock"), FeedItem("article-2", 20250210, "mock"),
       FeedItem("article-3", 20250128, "mock"), FeedItem("article-4", 20241220, "mock"),
       FeedItem("micro-1", 20250218, "mock"), FeedItem("micro-2", 20250216, "mock"),
       FeedItem("micro-3", 20250212, "mock"), FeedItem("media-1", 20250214, "mock"),
       FeedItem("media-2", 20250208, "mock"), FeedItem("photo-1", 20250217, "mock"),
       FeedItem("photo-2", 20250215, "mock"), FeedItem("article-5", 20241115, "mock"),
       FeedItem("article-6", 20241020, "mock"), FeedItem("article-7", 20240905, "mock") >>

Adapters == {"articles", "photos", "douban", "telegram"}
\* getAllArticles and getAllPhotos reject when the document store does;
\* fetchDoubanFeed and fetchTelegramFeed catch and resolve with [].
CanReject(a) == a \in {"articles", "photos"}

\* Array.prototype.sort with (a, b) => b.date.getTime() - a.date.getTime():
\* a stable sort, here by insertion.
RECURSIVE InsertDesc(_, _)
InsertDesc(sorted, x) ==
    IF sorted = <<>> THEN <<x>>
    ELSE IF Head(sorted).date >= x.date
         THEN <<Head(sorted)>> \o InsertDesc(Tail(sorted), x)
         ELSE <<x>> \o sorted

RECURSIVE SortByDateDesc(_)
SortByDateDesc(items) ==
    IF items = <<>> THEN <<>>
    ELSE InsertDesc(SortByDateDesc(SubSeq(items, 1, Len(items) - 1)), items[Len(items)])

\* What each adapter can resolve with. The document store answers newest
\* first, fetchDoubanFeed sorts what it parsed, fetchViaRSSHub keeps feed order.
AdapterResults(a) ==
    CASE a = "articles" ->
            {<<>>, <<FeedItem("a1", 2, a), FeedItem("a2", 2, a)>>}
      [] a = "photos" -> {<<>>, <<FeedItem("p1", 2, a)>>}
      [] a = "douban" ->
            {<<>>, SortByDateDesc(<<FeedItem("d1", 1, a), FeedItem("d2", 2, a)>>)}
      [] OTHER -> {<<>>, <<FeedItem("t1", 1, a), FeedItem("t2", 2, a)>>}

FeedCallIds == 1..MaxFeedCalls

IdleFeedCall ==
    [pc |-> "idle", useMock |-> FALSE, from |-> "none", warm |-> FALSE,
     invoked |-> {}, pending |-> {}, got |-> [a \in Adapters |-> <<>>],
     raised |-> FALSE, ret |-> <<>>, configured |-> {}, resolved |-> {},
     injected |-> NoRuntimeEnv, looked |-> {}, failed |-> {}, raisedBy |-> "none"]

\* The adapters whose keys resolve through env.ts getEnv
ResolverConfigured ==
    (IF Truthy(getEnv(NOTION_API_KEY)) /\ Truthy(getEnv(NOTION_ARTICLES_DATABASE_ID))
     THEN {"articles", "photos"} ELSE {})
    \cup (IF Truthy(getEnv(DOUBAN_USER_RSS)) THEN {"douban"} ELSE {})
    \cup (IF Truthy(getEnv(TELEGRAM_CHANNEL_USERNAME)) THEN {"telegram"} ELSE {})

\* The promises getFeedItems pushes
ConfiguredAdapters ==
    (IF shouldUseRealAPI THEN {"articles", "photos"} ELSE {})
    \cup (IF shouldUseDouban THEN {"douban"} ELSE {})
    \cup (IF shouldUseTelegram THEN {"telegram"} ELSE {})

\* notion.ts getEnv, the document-store adapter's own lookup
NotionGetEnv(key) ==
    IF Truthy(importMetaEnv[key]) THEN importMetaEnv[key] ELSE processEnv[key]

\* The configuration lookups of one getFeedItems call up to its await, each
\* with the adapter that made it and what it got: isTelegramConfigured in the
\* gate; then, for the adapters in `use`, getArticlesDatabaseId in
\* fetchArticles, DOUBAN_USER_RSS() in fetchDoubanFeed, and the channel name
\* in fetchTelegramFeed / fetchViaRSSHub.
AdapterLookups(use) ==
    {[by |-> "telegram", key |-> TELEGRAM_CHANNEL_USERNAME,
      val |-> getEnv(TELEGRAM_CHANNEL_USERNAME)]}
    \cup (IF "articles" \in use
          THEN {[by |-> "articles", key |-> NOTION_ARTICLES_DATABASE_ID,
                 val |-> NotionGetEnv(NOTION_ARTICLES_DATABASE_ID)]}
          ELSE {})
    \cup (IF "douban" \in use
          THEN {[by |-> "douban", key |-> DOUBAN_USER_RSS,
                 val |-> getEnv(DOUBAN_USER_RSS)]}
          ELSE {})

\* results.flat() in another order: the channel feed first
Merge_TelegramFirst(got) ==
    got["telegram"] \o got["articles"] \o got["photos"] \o got["douban"]

\* results.flat(): [...articles, ...photos], then douban, then telegram
Merge(got) ==
    got["articles"] \o got["photos"] \o got["douban"] \o got["telegram"]

\* the catch block handing on what did arrive
getFeedItemsCatch_Partial(got) == SortByDateDesc(Merge(got))

\* the catch block of getFeedItems
getFeedItemsCatch(got) == mockFeedItems

CanBeginFeed(c) ==
    /\ feedCalls[c].pc = "idle"
    /\ c > 1 => feedCalls[c - 1].pc # "idle"

\* getFeedItems(options), up to `await Promise.all(promises)`: the call's
\* record, given what feedItemsCache.get() gave, the adapters the gates
\* chose, those the resolver would choose, and the lookups made.
getFeedItemsStart(useMock, cached, use, resolved, looks) ==
    LET base == [IdleFeedCall EXCEPT !.useMock = useMock,
                                     !.warm = cached # NullV,
                                     !.configured = use,
                                     !.resolved = resolved]
    IN  IF cached # NullV
        THEN [base EXCEPT !.pc = "done", !.from = "cache", !.ret = cached.elems]
        ELSE IF useMock \/ use = {}
             THEN [base EXCEPT !.pc = "done", !.from = "mock", !.ret = mockFeedItems,
                               !.looked = looks]
             ELSE [base EXCEPT !.pc = "await", !.invoked = use, !.pending = use,
                               !.looked = looks]

\* getFeedItems(options) called on its own
BeginGetFeedItems(c, useMock) ==
    /\ CanBeginFeed(c)
    /\ feedCalls' = [feedCalls EXCEPT ![c] =
            getFeedItemsStart(useMock, CacheGet(feedItemsCache, now),
                              ConfiguredAdapters, ResolverConfigured,
                              AdapterLookups(IF useMock THEN {} ELSE ConfiguredAdapters))]
    /\ UNCHANGED <<kvVars, now, memVars, envVars, auxVars>>

\* setRuntimeEnvAndClearCache(env): the slot is set and the in-process
\* caches are cleared
setRuntimeEnvAndClearCache(env) ==
    [slot |-> setRuntimeEnv(env), cache |-> CacheClear]

\* GET /api/feed with a runtime env: the handler injects it and calls
\* getFeedItems(), which runs up to its await in the same turn.
FeedRequest(c, env) ==
    /\ CanBeginFeed(c)
    /\ runtimeEnv' = setRuntimeEnvAndClearCache(env).slot
    /\ feedItemsCache' = setRuntimeEnvAndClearCache(env).cache
    /\ cacheLog' = [lastSet |-> [cacheLog.lastSet EXCEPT !.live = FALSE],
                    lastGet |-> NoGet]
    /\ UNCHANGED <<importMetaEnv, processEnv, now>>
    /\ feedCalls' = [feedCalls EXCEPT ![c] =
            [getFeedItemsStart(FALSE, CacheGet(feedItemsCache, now)',
                               ConfiguredAdapters', ResolverConfigured',
                               AdapterLookups(ConfiguredAdapters)')
                EXCEPT !.injected = runtimeEnv']]
    /\ UNCHANGED <<kvVars, auxVars>>

\* a combinator that resolves with the first promise to resolve
PromiseAllResolved_Any(left) == TRUE

\* Promise.all(promises) resolves once none of its promises is left pending
PromiseAllResolved(left) == left = {}

\* One adapter's promise resolves; with the last one Promise.all resolves
\* and getFeedItems merges, sorts, caches and returns.
AdapterResolve(c, a, items) ==
    /\ feedCalls[c].pc = "await"
    /\ a \in feedCalls[c].pending
    /\ items \in AdapterResults(a)
    /\ LET got == [feedCalls[c].got EXCEPT ![a] = items]
           left == feedCalls[c].pending \ {a}
           allItems == SortByDateDesc(Merge(got))
       IN IF ~PromiseAllResolved(left)
          THEN /\ feedCalls' = [feedCalls EXCEPT ![c] =
                        [@ EXCEPT !.got = got, !.pending = left]]
               /\ UNCHANGED memVars
          ELSE /\ feedCalls' = [feedCalls EXCEPT ![c] =
                        [@ EXCEPT !.got = got, !.pending = left, !.pc = "done",
                                  !.from = "fresh", !.ret = allItems]]
               /\ feedItemsCache' = CacheSet(Arr(allItems), now)
               /\ cacheLog' = [lastSet |-> [val |-> Arr(allItems), at |-> now,
                                            live |-> TRUE, by |-> c],
                               lastGet |-> NoGet]
    /\ UNCHANGED <<kvVars, now, envVars, auxVars>>

\* One adapter's promise rejects: Promise.all rejects, the catch block returns.
AdapterReject(c, a) ==
    /\ feedCalls[c].pc = "await"
    /\ a \in feedCalls[c].pending
    /\ CanReject(a)
    /\ feedCalls' = [feedCalls EXCEPT ![c] =
            [@ EXCEPT !.pending = {}, !.pc = "done", !.from = "catch",
                      !.raised = TRUE, !.raisedBy = a,
                      !.ret = getFeedItemsCatch(feedCalls[c].got)]]
    /\ UNCHANGED <<kvVars, now, memVars, envVars, auxVars>>

\* What can go wrong upstream of fetchAndParseRSS: fetch rejects, response.ok
\* is false, the XML parser throws
UpstreamFailures == {"network", "status", "parse"}

\* the adapter without its try/catch
FeedAdapterCatch_Rethrows(failure) == [threw |-> TRUE, items |-> <<>>]

\* fetchDoubanFeed / fetchViaRSSHub: catch (error) { console.error(...); return []; }
FeedAdapterCatch(failure) == [threw |-> FALSE, items |-> <<>>]

\* The source of the media log or of the channel feed fails while
\* getFeedItems awaits the adapter.
AdapterUpstreamFails(c, a, failure) ==
    /\ feedCalls[c].pc = "await"
    /\ a \in feedCalls[c].pending \cap {"douban", "telegram"}
    /\ LET r == FeedAdapterCatch(failure)
           noted == [feedCalls EXCEPT ![c].failed = @ \cup {a}]
       IN IF r.threw
          THEN /\ feedCalls' = [noted EXCEPT ![c] =
                        [@ EXCEPT !.pending = {}, !.pc = "done", !.from = "catch",
                                  !.raised = TRUE, !.raisedBy = a,
                                  !.ret = getFeedItemsCatch(feedCalls[c].got)]]
               /\ UNCHANGED memVars
          ELSE LET got == [feedCalls[c].got EXCEPT ![a] = r.items]
                   left == feedCalls[c].pending \ {a}
                   allItems == SortByDateDesc(Merge(got))
               IN IF ~PromiseAllResolved(left)
                  THEN /\ feedCalls' = [noted EXCEPT ![c] =
                                [@ EXCEPT !.got = got, !.pending = left]]
                       /\ UNCHANGED memVars
                  ELSE /\ feedCalls' = [noted EXCEPT ![c] =
                                [@ EXCEPT !.got = got, !.pending = left, !.pc = "done",
                                          !.from = "fresh", !.ret = allItems]]
                       /\ feedItemsCache' = CacheSet(Arr(allItems), now)
                       /\ cacheLog' = [lastSet |-> [val |-> Arr(allItems), at |-> now,
                                                    live |-> TRUE, by |-> c],
                                       lastGet |-> NoGet]
    /\ UNCHANGED <<kvVars, now, envVars, auxVars>>

----------------------------------------------------------------------------
(* The media log: rss.ts *)

\* STATUS_KEYWORDS, in the order Object.entries gives its groups
STATUS_KEYWORDS == <<"reading", "watched", "watching", "listening", "wantRead", "wantWatch">>

\* An item of the parsed feed. `kw` holds the groups of STATUS_KEYWORDS one
\* of whose keywords the title contains; guid and link may be missing.
NoId == [kind |-> "undefined"]
RawItem(n, kw, guid, link) ==
    [n |-> n, kw |-> kw,
     guid |-> IF guid THEN [kind |-> "guid", n |-> n] ELSE NoId,
     link |-> IF link THEN [kind |-> "link", n |-> n] ELSE NoId]

\* parseDoubanItem's status: 'done' unless a keyword matches; the `break`
\* leaves the inner loop only, so the last matching group stands.
RECURSIVE StatusAfter(_, _, _)
StatusAfter(kw, i, status) ==
    IF i > Len(STATUS_KEYWORDS) THEN status
    ELSE StatusAfter(kw, i + 1, IF STATUS_KEYWORDS[i] \in kw THEN STATUS_KEYWORDS[i] ELSE status)

parseDoubanItem(item) == [status |-> StatusAfter(item.kw, 1, "done")]

\* every status counted as in progress
InProgress_All(status) == TRUE

\* getCurrentItems: ['reading', 'watching', 'listening'].includes(parsed.status)
InProgress(status) == status \in {"reading", "watching", "listening"}

\* The loop of getCurrentItems over feed.items from item i on
RECURSIVE CurrentLoop(_, _, _)
CurrentLoop(items, i, currentItems) ==
    IF i > Len(items) THEN currentItems
    ELSE LET parsed == parseDoubanItem(items[i])
             pushed == IF InProgress(parsed.status)
                       THEN Append(currentItems, [type |-> parsed.status, n |-> items[i].n])
                       ELSE currentItems
         IN IF Len(pushed) >= 5 THEN pushed
            ELSE CurrentLoop(items, i + 1, pushed)

IdleCurrent == [pc |-> "idle", ret |-> <<>>, from |-> "none"]

\* rss.ts getCurrentItems(), up to `await fetchAndParseRSS(rssUrl)`
GetCurrentItems ==
    /\ current.pc = "idle"
    /\ current' = IF ~Truthy(getEnv(DOUBAN_USER_RSS))
                  THEN [pc |-> "done", ret |-> <<>>, from |-> "unset"]
                  ELSE [pc |-> "await", ret |-> <<>>, from |-> "none"]
    /\ UNCHANGED <<kvVars, now, memVars, envVars, feedCalls, envLog, doubanFeed, archive, proxy,
                   pages, slugCall, idFetch, overtaken, afterFailure, sideVars, pager, applied>>

\* the feed arrived and parsed
CurrentItemsResolve ==
    /\ current.pc = "await"
    /\ current' = [pc |-> "done", ret |-> CurrentLoop(doubanFeed, 1, <<>>), from |-> "feed"]
    /\ UNCHANGED <<kvVars, now, memVars, envVars, feedCalls, envLog, doubanFeed, archive, proxy,
                   pages, slugCall, idFetch, overtaken, afterFailure, sideVars, pager, applied>>

\* fetch or parse threw: the catch returns []
CurrentItemsReject ==
    /\ current.pc = "await"
    /\ current' = [pc |-> "done", ret |-> <<>>, from |-> "catch"]
    /\ UNCHANGED <<kvVars, now, memVars, envVars, feedCalls, envLog, doubanFeed, archive, proxy,
                   pages, slugCall, idFetch, overtaken, afterFailure, sideVars, pager, applied>>

\* The titles SpecCurrent draws from, by the keyword groups they contain
TitleKinds == {{"reading"}, {"listening"}, {"watched"}, {"reading", "wantRead"}}

\* The upstream feed gains an item whose title contains the keyword groups
\* `kw`, before getCurrentItems is called.
DoubanFeedGrows(kw) ==
    /\ current.pc = "idle"
    /\ Len(doubanFeed) < MaxFeedLen
    /\ doubanFeed' = Append(doubanFeed, RawItem(Len(doubanFeed) + 1, kw, TRUE, TRUE))
    /\ UNCHANGED <<kvVars, now, memVars, envVars, feedCalls, envLog, current, archive, proxy,
                   pages, slugCall, idFetch, overtaken, afterFailure, sideVars, pager, applied>>

\* fetchDoubanFeed's metadata status for a parsed status
MetadataStatus(status) ==
    IF status \in {"reading", "watching", "listening"} THEN "in_progress"
    ELSE IF status \in {"wantRead", "wantWatch"} THEN "wishlist"
    ELSE "completed"

\* The text of an item as the rating stages see it: the star run the star
\* pattern matches (<<>> when it does not match), whether it matched after
\* the word for 'recommended', the first N/5 or N/10 the numeric pattern
\* finds, and the rating words the text contains.
Content(stars, prefixed, num, words) ==
    [stars |-> stars, prefixed |-> prefixed, num |-> num,
     words |-> IF prefixed THEN words \cup {"recommended"} ELSE words]

NoNum == [n |-> -1, max |-> 0]
NoRating == [rating |-> -1, maxRating |-> 0]

\* wordRatings, in the order Object.entries gives it
wordRatings ==
    << [word |-> "superb", score |-> 5], [word |-> "recommended", score |-> 4],
       [word |-> "fair", score |-> 3], [word |-> "poor", score |-> 2],
       [word |-> "bad", score |-> 1] >>

\* !rating: undefined or 0
NoRatingYet(r) == r.rating = -1 \/ r.rating = 0

\* The three rating stages of parseDoubanItem
RatingOf(content) ==
    LET a == IF content.stars # <<>>
             THEN [rating |-> Cardinality({i \in DOMAIN content.stars :
                                                content.stars[i] = "full"}),
                   maxRating |-> 5]
             ELSE NoRating
        b == IF NoRatingYet(a) /\ content.num # NoNum
             THEN [rating |-> content.num.n, maxRating |-> content.num.max]
             ELSE a
        hits == {i \in DOMAIN wordRatings : wordRatings[i].word \in content.words}
        first == CHOOSE i \in hits : \A j \in hits : i <= j
    IN IF NoRatingYet(b) /\ hits # {}
       THEN [rating |-> wordRatings[first].score, maxRating |-> 5]
       ELSE b

\* parseDoubanItem on an item with this text: its rating
ParseRating(content) ==
    /\ applied = NotApplied
    /\ applied' = [fn |-> "rating", input |-> content, out |-> RatingOf(content)]
    /\ UNCHANGED <<kvVars, now, memVars, envVars, feedCalls, notPager, pager>>

\* fetchDoubanFeed on an item whose title contains the keyword groups `kw`:
\* its metadata status
ParseStatus(kw) ==
    /\ applied = NotApplied
    /\ applied' = [fn |-> "status", input |-> kw,
                   out |-> MetadataStatus(parseDoubanItem(RawItem(1, kw, TRUE, TRUE)).status)]
    /\ UNCHANGED <<kvVars, now, memVars, envVars, feedCalls, notPager, pager>>

\* The star runs of up to MaxStars glyphs, and the texts over them
StarRuns == UNION {[1..n -> {"full", "empty"}] : n \in 0..MaxStars}
Contents ==
    {Content(st, pre, num, w) :
        st \in StarRuns, pre \in BOOLEAN,
        num \in {NoNum, [n |-> 8, max |-> 10], [n |-> 0, max |-> 5]},
        w \in {{}, {"superb"}, {"fair", "bad"}}}

----------------------------------------------------------------------------
(* Archive grouping: mock-data getArchiveGroups *)

\* An item as getArchiveGroups reads it; date is its day as yyyymmdd.
ArchItem(id, type, title, date) == [id |-> id, type |-> type, title |-> title, date |-> date]

\* date.getFullYear()
getFullYear(date) == date \div 10000

\* the filter without its title test
IsArchived_AnyArticle(item) == item.type = "article"

\* (item) => item.type === 'article' && item.title
IsArchived(item) == item.type = "article" /\ item.title # ""

\* The grouping loop: a Map from year to items, in insertion order
RECURSIVE GroupByYear(_, _)
GroupByYear(articles, groups) ==
    IF articles = <<>> THEN groups
    ELSE LET item == Head(articles)
             year == getFullYear(item.date)
             has == \E g \in DOMAIN groups : groups[g].year = year
             made == IF has THEN groups ELSE Append(groups, [year |-> year, items |-> <<>>])
         IN GroupByYear(Tail(articles),
                [g \in DOMAIN made |->
                    IF made[g].year = year
                    THEN [made[g] EXCEPT !.items = Append(@, item)]
                    ELSE made[g]])

\* .sort((a, b) => b.year - a.year), stable
RECURSIVE InsertYearDesc(_, _)
InsertYearDesc(sorted, x) ==
    IF sorted = <<>> THEN <<x>>
    ELSE IF Head(sorted).year >= x.year
         THEN <<Head(sorted)>> \o InsertYearDesc(Tail(sorted), x)
         ELSE <<x>> \o sorted

RECURSIVE SortByYearDesc(_)
SortByYearDesc(groups) ==
    IF groups = <<>> THEN <<>>
    ELSE InsertYearDesc(SortByYearDesc(SubSeq(groups, 1, Len(groups) - 1)), groups[Len(groups)])

\* getArchiveGroups(items): the groups returned, and the caller's list after
\* the call (filter copies, so the sort works on the copy).
getArchiveGroups(items) ==
    LET articles == SortByDateDesc(SelectSeq(items, IsArchived))
        groups == GroupByYear(articles, <<>>)
        mapped == [g \in DOMAIN groups |->
                    [year |-> groups[g].year,
                     items |-> [i \in DOMAIN groups[g].items |->
                                    [id |-> groups[g].items[i].id,
                                     title |-> groups[g].items[i].title,
                                     date |-> groups[g].items[i].date,
                                     type |-> groups[g].items[i].type]],
                     count |-> Len(groups[g].items)]]
    IN [groups |-> SortByYearDesc(mapped), items |-> items]

\* A caller groups its list.
GetArchiveGroups ==
    /\ Len(archive.outs) < 2
    /\ LET r == getArchiveGroups(archive.items)
       IN archive' = [items |-> r.items, given |-> archive.given,
                      outs |-> Append(archive.outs, r.groups)]
    /\ UNCHANGED <<kvVars, now, memVars, envVars, feedCalls, envLog, doubanFeed, current, proxy,
                   pages, slugCall, idFetch, overtaken, afterFailure, sideVars, pager, applied>>

\* The items SpecArchive draws from, n being the place in the list
ArchiveKinds(n) ==
    {ArchItem(n, "article", "t", 20250215), ArchItem(n, "article", "t", 20241220),
     ArchItem(n, "article", "t", 20240105), ArchItem(n, "article", "", 20250210),
     ArchItem(n, "photo", "t", 20241115)}

ArchiveInputs ==
    UNION {{[i \in 1..len |-> [f[i] EXCEPT !.id = i]] : f \in [1..len -> ArchiveKinds(0)]}
            : len \in 0..MaxArchiveLen}

NoArchive == [items |-> <<>>, given |-> <<>>, outs |-> <<>>]

----------------------------------------------------------------------------
(* The sidebar and the archive page: index.ts getCurrentItems, getArchiveItems *)

\* mockCurrentItems, in the order of the file
mockCurrentItems ==
    << [type |-> "reading", mediaType |-> "book", url |-> UNDEF],
       [type |-> "watching", mediaType |-> "tv", url |-> UNDEF],
       [type |-> "listening", mediaType |-> "music", url |-> UNDEF] >>

\* mockFeedItems as getArchiveGroups reads them
MockArchItems ==
    [i \in DOMAIN mockFeedItems |->
        ArchItem(mockFeedItems[i].id,
                 IF mockFeedItems[i].id \in {"article-1", "article-2", "article-3", "article-4",
                                             "article-5", "article-6", "article-7"}
                 THEN "article" ELSE "other",
                 "t", mockFeedItems[i].date)]

\* mockArchiveGroups = getArchiveGroups(mockFeedItems)
mockArchiveGroups == getArchiveGroups(MockArchItems).groups

\* What rss.ts getCurrentItems can resolve with: it catches its own failures
\* and gives [] then, as it does without a feed URL.
DoubanCurrentResults ==
    {<<>>, <<[type |-> "watching", mediaType |-> "movie", url |-> "d2"],
             [type |-> "reading", mediaType |-> "book", url |-> "d1"]>>}

\* What getAllArticles can resolve with
AllArticlesResults ==
    {<<>>, <<ArchItem("a1", "article", "t", 20250301), ArchItem("a2", "article", "t", 20240301)>>}

IdleIndexCall == [pc |-> "idle", from |-> "none", ret |-> <<>>]

InitSide ==
    /\ currentItemsCache = EmptyCache
    /\ archiveItemsCache = EmptyCache
    /\ indexCall = [f \in {"current", "archive"} |-> IdleIndexCall]

\* A function of index.ts up to its await: the cache, then the gate
IndexCallStart(cached, configured, fallback) ==
    IF cached # NullV THEN [pc |-> "done", from |-> "cache", ret |-> cached.elems]
    ELSE IF ~configured THEN [pc |-> "done", from |-> "mock", ret |-> fallback]
    ELSE [pc |-> "await", from |-> "none", ret |-> <<>>]

\* getCurrentItems(), up to `await getDoubanCurrentItems()`
BeginGetCurrentItems ==
    /\ indexCall["current"].pc # "await"
    /\ indexCall' = [indexCall EXCEPT !["current"] =
            IndexCallStart(CacheGet(currentItemsCache, now), shouldUseDouban,
                           mockCurrentItems)]
    /\ UNCHANGED <<kvVars, now, memVars, envVars, feedCalls, envLog, doubanFeed, current,
                   archive, proxy, pages, slugCall, idFetch, overtaken, afterFailure,
                   currentItemsCache, archiveItemsCache, pager, applied>>

\* the empty list cached like any other
getCurrentItemsThen_CachesFallback(items, cache, t) ==
    IF Len(items) > 0
    THEN [from |-> "fresh", ret |-> items, cache |-> CacheSet(Arr(items), t)]
    ELSE [from |-> "empty", ret |-> mockCurrentItems,
          cache |-> CacheSet(Arr(mockCurrentItems), t)]

\* getCurrentItems after its await: items.length > 0 is cached and returned,
\* an empty list gives mockCurrentItems and no set
getCurrentItemsThen(items, cache, t) ==
    IF Len(items) > 0
    THEN [from |-> "fresh", ret |-> items, cache |-> CacheSet(Arr(items), t)]
    ELSE [from |-> "empty", ret |-> mockCurrentItems, cache |-> cache]

\* getDoubanCurrentItems() resolved
CurrentItemsArrive(items) ==
    /\ indexCall["current"].pc = "await"
    /\ LET r == getCurrentItemsThen(items, currentItemsCache, now)
       IN /\ indexCall' = [indexCall EXCEPT !["current"] =
                    [pc |-> "done", from |-> r.from, ret |-> r.ret]]
          /\ currentItemsCache' = r.cache
    /\ UNCHANGED <<kvVars, now, memVars, envVars, feedCalls, envLog, doubanFeed, current,
                   archive, proxy, pages, slugCall, idFetch, overtaken, afterFailure,
                   archiveItemsCache, pager, applied>>

\* getArchiveItems(), up to `await getAllArticles()`
BeginGetArchiveItems ==
    /\ indexCall["archive"].pc # "await"
    /\ indexCall' = [indexCall EXCEPT !["archive"] =
            IndexCallStart(CacheGet(archiveItemsCache, now), shouldUseRealAPI,
                           mockArchiveGroups)]
    /\ UNCHANGED <<kvVars, now, memVars, envVars, feedCalls, envLog, doubanFeed, current,
                   archive, proxy, pages, slugCall, idFetch, overtaken, afterFailure,
                   currentItemsCache, archiveItemsCache, pager, applied>>

\* getAllArticles() resolved: the groups are cached and returned
ArchiveArticlesArrive(articles) ==
    /\ indexCall["archive"].pc = "await"
    /\ LET result == getArchiveGroups(articles).groups
       IN /\ indexCall' = [indexCall EXCEPT !["archive"] =
                    [pc |-> "done", from |-> "fresh", ret |-> result]]
          /\ archiveItemsCache' = CacheSet(Arr(result), now)
    /\ UNCHANGED <<kvVars, now, memVars, envVars, feedCalls, envLog, doubanFeed, current,
                   archive, proxy, pages, slugCall, idFetch, overtaken, afterFailure,
                   currentItemsCache, pager, applied>>

\* getAllArticles() rejected: the catch block returns mockArchiveGroups
ArchiveArticlesReject ==
    /\ indexCall["archive"].pc = "await"
    /\ indexCall' = [indexCall EXCEPT !["archive"] =
            [pc |-> "done", from |-> "catch", ret |-> mockArchiveGroups]]
    /\ UNCHANGED <<kvVars, now, memVars, envVars, feedCalls, envLog, doubanFeed, current,
                   archive, proxy, pages, slugCall, idFetch, overtaken, afterFailure,
                   currentItemsCache, archiveItemsCache, pager, applied>>

----------------------------------------------------------------------------
(* Cache clearing: pages/api/cache-clear.ts *)

\* the keys the handler clears, in its order
ClearKeys == <<ARTICLES, PHOTOS>>

\* The keys the store holds at `t`
Present(s, t) == {k \in Keys : s[k] # Absent /\ t < s[k].exp}

\* The handler's loop from `left` on, with the store binding `kv` found by
\* kvDelete: a kvDelete that finds no binding returns at once and the loop
\* goes on; one that finds it awaits kv.delete; after the last key the
\* handler answers 200.
RECURSIVE ClearLoop(_, _, _, _, _)
ClearLoop(rec, left, kv, s, t) ==
    IF left = <<>>
    THEN [rec EXCEPT !.pc = "done", !.status = 200, !.left = <<>>, !.present = Present(s, t)]
    ELSE IF kv = "null"
         THEN ClearLoop(rec, Tail(left), kv, s, t)
         ELSE [rec EXCEPT !.pc = "clear", !.key = Head(left), !.left = Tail(left),
                          !.touched = TRUE]

\* GET /api/cache-clear with runtime env `env` ("none": no runtime env), up
\* to its first await
CacheClearRequest(c, env) ==
    /\ calls[c].pc = "idle"
    /\ c > 1 => calls[c - 1].pc # "idle"
    /\ runtimeEnvWithKV' = IF env = "none" THEN runtimeEnvWithKV ELSE env
    /\ runtimeEnv' = IF env = "none" THEN runtimeEnv
                     ELSE setRuntimeEnvAndClearCache(NoTier).slot
    /\ feedItemsCache' = IF env = "none" THEN feedItemsCache
                         ELSE setRuntimeEnvAndClearCache(NoTier).cache
    /\ LET kv == getKVNamespace(runtimeEnvWithKV', globalKV)
           rec == [IdleCall EXCEPT !.op = "cacheClear", !.avail = kv # "null"]
       IN calls' = [calls EXCEPT ![c] =
            IF ~isKVAvailable(runtimeEnvWithKV', globalKV)
            THEN [rec EXCEPT !.pc = "done", !.status = 500]
            ELSE ClearLoop(rec, ClearKeys, kv, store, now)]
    /\ UNCHANGED <<globalKV, store, now, puts, delDone, cacheLog>>
    /\ UNCHANGED <<importMetaEnv, processEnv, feedCalls, auxVars>>

\* kv.delete settles inside the handler's kvDelete; the loop goes on.
CacheClearDeleteSettle(c, thrown) ==
    /\ calls[c].pc = "clear"
    /\ store' = IF thrown THEN store ELSE [store EXCEPT ![calls[c].key] = Absent]
    /\ calls' = [calls EXCEPT ![c] =
            ClearLoop([calls[c] EXCEPT !.delFailed = @ \/ thrown], calls[c].left,
                      getKVNamespace(runtimeEnvWithKV, globalKV), store', now)]
    /\ UNCHANGED <<runtimeEnvWithKV, globalKV, now, puts, delDone>>
    /\ UNCHANGED <<memVars, envVars, feedCalls, auxVars>>

\* an entry some earlier read wrote back
StoredList == [json |-> JSONStringify(Arr(<<Item("a1", 1)>>)),
               exp |-> CACHE_TTL_SECONDS * 1000, by |-> 0]

----------------------------------------------------------------------------
(* Articles: notion.ts fetchArticles / fetchArticle, index.ts getArticleBySlug *)

\* A published page of the articles database: its id, its Slug property
\* ('' when empty) and the markup of its blocks.
Page(id, slug) == [id |-> id, slug |-> slug, content |-> IF id = "p1" THEN "<p>one</p>" ELSE "<p>two</p>"]

NoArticle == [kind |-> "null"]

\* fetchArticles: the item built for a page, content left empty; the last
\* segment of its url is the slug, or the page id when the slug is empty.
ListItem(page) ==
    [kind |-> "item", id |-> page.id,
     slug |-> IF page.slug = "" THEN page.id ELSE page.slug, content |-> ""]

\* fetchAllArticlesInternal over the pages `ps`
fetchAllArticlesInternal(ps) == [i \in DOMAIN ps |-> ListItem(ps[i])]

\* fetchArticleInternal(pageId): the page with its content, or null when
\* retrieving it or its blocks failed (a page that is not there included)
fetchArticleInternal(ps, pageId, fails) ==
    IF fails \/ ~\E i \in DOMAIN ps : ps[i].id = pageId THEN NoArticle
    ELSE LET page == ps[CHOOSE i \in DOMAIN ps : ps[i].id = pageId]
         IN [kind |-> "item", id |-> page.id,
             slug |-> IF page.slug = "" THEN page.id ELSE page.slug,
             content |-> page.content]

\* find() matching the slug alone
Matches_SlugOnly(a, slug) == a.slug = slug

\* articles.find's test: a.url?.split('/').pop() === slug || a.id === slug
Matches(a, slug) == a.slug = slug \/ a.id = slug

\* Array.prototype.find: the first match, or undefined
Find(articles, slug) ==
    IF \E i \in DOMAIN articles : Matches(articles[i], slug)
    THEN articles[CHOOSE i \in DOMAIN articles :
                    /\ Matches(articles[i], slug)
                    /\ \A j \in 1..(i - 1) : ~Matches(articles[j], slug)]
    ELSE NoArticle

\* The articles of mockFeedItems, in order, each with the last segment of its url
MockArticles ==
    << [id |-> "article-1", slug |-> "building-second-brain"],
       [id |-> "article-2", slug |-> "slow-reading"],
       [id |-> "article-3", slug |-> "designing-readability"],
       [id |-> "article-4", slug |-> "writing-workflow-2024"],
       [id |-> "article-5", slug |-> "switching-to-solidjs"],
       [id |-> "article-6", slug |-> "minimalism-web-design"],
       [id |-> "article-7", slug |-> "boring-technology"] >>

\* item.url?.endsWith(slug), for the slugs asked for here
EndsWith(urlSlug, slug) == urlSlug = slug \/ (urlSlug = "slow-reading" /\ slug = "reading")

\* getArticleBySlug without the document store: the first mock article whose
\* url ends with the slug, with the content the mock data gives it
MockFind(slug) ==
    IF \E i \in DOMAIN MockArticles : EndsWith(MockArticles[i].slug, slug)
    THEN LET m == MockArticles[CHOOSE i \in DOMAIN MockArticles :
                    /\ EndsWith(MockArticles[i].slug, slug)
                    /\ \A j \in 1..(i - 1) : ~EndsWith(MockArticles[j].slug, slug)]
         IN [kind |-> "item", id |-> m.id, slug |-> m.slug, content |-> "<p>mock</p>"]
    ELSE NoArticle

IdleSlug ==
    [pc |-> "idle", slug |-> "", real |-> FALSE, list |-> <<>>, listed |-> "no",
     found |-> NoArticle, fetchedId |-> "", fetched |-> "no", ret |-> NoArticle]

\* getArticleBySlug(slug), up to `await getAllArticles()`
GetArticleBySlug(slug) ==
    /\ slugCall.pc \in {"idle", "done"}
    /\ slugCall' =
            IF ~shouldUseRealAPI
            THEN [IdleSlug EXCEPT !.pc = "done", !.slug = slug, !.ret = MockFind(slug)]
            ELSE [IdleSlug EXCEPT !.pc = "list", !.slug = slug, !.real = TRUE]
    /\ UNCHANGED <<kvVars, now, memVars, envVars, feedCalls>>
    /\ UNCHANGED <<envLog, doubanFeed, current, archive, proxy, pages, idFetch, overtaken, afterFailure, sideVars, pager, applied>>

\* getAllArticles() resolved, with the list of the pages as they are or,
\* out of the durable cache, of the pages `ps` as they were; then find, and
\* fetchArticle(found.id) up to its await.
SlugListResolve(ps) ==
    /\ slugCall.pc = "list"
    /\ LET articles == fetchAllArticlesInternal(ps)
           found == Find(articles, slugCall.slug)
       IN slugCall' =
            IF found = NoArticle
            THEN [slugCall EXCEPT !.pc = "done", !.list = articles, !.listed = "yes",
                                  !.ret = NoArticle]
            ELSE [slugCall EXCEPT !.pc = "article", !.list = articles, !.listed = "yes",
                                  !.found = found, !.fetchedId = found.id]
    /\ UNCHANGED <<kvVars, now, memVars, envVars, feedCalls>>
    /\ UNCHANGED <<envLog, doubanFeed, current, archive, proxy, pages, idFetch, overtaken, afterFailure, sideVars, pager, applied>>

\* getAllArticles() rejected: the catch returns null.
SlugListReject ==
    /\ slugCall.pc = "list"
    /\ slugCall' = [slugCall EXCEPT !.pc = "done", !.listed = "threw", !.ret = NoArticle]
    /\ UNCHANGED <<kvVars, now, memVars, envVars, feedCalls>>
    /\ UNCHANGED <<envLog, doubanFeed, current, archive, proxy, pages, idFetch, overtaken, afterFailure, sideVars, pager, applied>>

\* fetchArticle(found.id) resolved; getArticleBySlug returns what it gave.
SlugArticleResolve(fails) ==
    /\ slugCall.pc = "article"
    /\ LET fullArticle == fetchArticleInternal(pages, slugCall.fetchedId, fails)
       IN slugCall' = [slugCall EXCEPT !.pc = "done",
                                       !.fetched = IF fullArticle = NoArticle THEN "failed" ELSE "yes",
                                       !.ret = fullArticle]
    /\ UNCHANGED <<kvVars, now, memVars, envVars, feedCalls>>
    /\ UNCHANGED <<envLog, doubanFeed, current, archive, proxy, pages, idFetch, overtaken, afterFailure, sideVars, pager, applied>>

\* The states of the articles database: up to two pages, with or without a
\* Slug, one page's slug possibly the other page's id
PageSets ==
    {<<>>} \cup {<<Page("p1", s)>> : s \in {"", "hello"}}
    \cup {<<Page("p2", s2), Page("p1", s1)>> : s1 \in {"", "hello", "p2"}, s2 \in {"", "world"}}

----------------------------------------------------------------------------
(* Item ids: rss.ts fetchAndParseRSS, fetchDoubanFeed; telegram.ts fetchViaRSSHub *)

\* a || b on values that are undefined or truthy
OrElse(a, b) == IF a # NoId THEN a ELSE b

\* fetchAndParseRSS's normalisation of an item: guid falls back to the link
NormalizeItem(raw) == [raw EXCEPT !.guid = OrElse(raw.guid, raw.link)]

\* `${prefix}-${Date.now()}-${Math.random()}`
GeneratedId(prefix, dateNow, random) ==
    [kind |-> "generated", prefix |-> prefix, now |-> dateNow, random |-> random]

\* fetchViaRSSHub: id: item.guid || `telegram-${Date.now()}-${Math.random()}`
TelegramId(item, dateNow, random) ==
    OrElse(item.guid, GeneratedId("telegram", dateNow, random))

\* fetchDoubanFeed: id: item.guid || item.link || `douban-${Date.now()}-${Math.random()}`
DoubanId(item, dateNow, random) ==
    OrElse(OrElse(item.guid, item.link), GeneratedId("douban", dateNow, random))

\* The upstream feeds: up to MaxIdFeedLen items, each with or without a guid
\* and a link
IdFeeds ==
    UNION {{[i \in 1..len |-> RawItem(i, {}, g[i], l[i])] :
                g \in [1..len -> BOOLEAN], l \in [1..len -> BOOLEAN]} : len \in 0..MaxIdFeedLen}

\* The values Math.random() gives here
Randoms == {1, 2}

NoIdFetch == [adapter |-> "none", feed |-> <<>>, runs |-> <<>>, at |-> 0]

\* One fetch of the unchanged upstream feed by an adapter, at clock reading
\* `dateNow`, `random[i]` being what Math.random() gave for the i-th item:
\* the ids of the items it returns, in feed order.
FetchIds(adapter, dateNow, random) ==
    /\ Len(idFetch.runs) < MaxFetches
    /\ idFetch.adapter \in {"none", adapter}
    /\ dateNow >= idFetch.at
    /\ LET items == [i \in DOMAIN idFetch.feed |-> NormalizeItem(idFetch.feed[i])]
           ids == [i \in DOMAIN items |->
                     IF adapter = "telegram" THEN TelegramId(items[i], dateNow, random[i])
                     ELSE DoubanId(items[i], dateNow, random[i])]
       IN idFetch' = [idFetch EXCEPT !.adapter = adapter, !.runs = Append(@, ids),
                                     !.at = dateNow]
    /\ UNCHANGED <<kvVars, now, memVars, envVars, feedCalls>>
    /\ UNCHANGED <<envLog, doubanFeed, current, archive, proxy, pages, slugCall, overtaken, afterFailure, sideVars, pager, applied>>

----------------------------------------------------------------------------
(* Page properties and reading time: notion.ts *)

\* a || b || ... over property values that are undefined or arrays: every
\* array, the empty one too, is truthy
FirstTruthy(values) ==
    IF \E i \in DOMAIN values : values[i] # Undef
    THEN values[CHOOSE i \in DOMAIN values :
                    values[i] # Undef /\ \A j \in 1..(i - 1) : values[j] = Undef]
    ELSE Undef

\* richText.map(t => t.plain_text).join(''), for arrays of at most one text
getPlainText(richText) ==
    IF richText = Undef \/ richText.elems = <<>> THEN "" ELSE richText.elems[1]

\* fetchArticles: getPlainText(props.A?.title || props.B?.title || props.C?.title),
\* the values being those of the aliases in their order
PropertyText(values) == getPlainText(FirstTruthy(values))

\* fetchArticles: the slug, getPlainText(...) || page.id
SlugText(values, pageId) ==
    IF PropertyText(values) = "" THEN pageId ELSE PropertyText(values)

\* An alias's upstream value: the property is missing, empty, or holds a text
AliasValues(i) == {Undef, Arr(<<>>), Arr(<<IF i = 1 THEN "first" ELSE IF i = 2 THEN "second" ELSE "third">>)}

\* fetchArticles on a page whose title aliases and slug aliases hold `title`
\* and `slug`
ExtractProperties(title, slug) ==
    /\ applied = NotApplied
    /\ applied' = [fn |-> "properties", input |-> [title |-> title, slug |-> slug],
                   out |-> [title |-> PropertyText(title), slug |-> SlugText(slug, "page-id")]]
    /\ UNCHANGED <<kvVars, now, memVars, envVars, feedCalls, notPager, pager>>

\* A text as calculateReadingTime sees it: runs of ideographs ("han"), of
\* other non-space characters ("latin"), of whitespace ("space"), and of
\* words each followed by a space ("words")
Run(ch, n) == [ch |-> ch, n |-> n]

\* content.match(/[\u4e00-\u9fa5]/g).length
RECURSIVE chineseChars(_)
chineseChars(content) ==
    IF content = <<>> THEN 0
    ELSE (IF Head(content).ch = "han" THEN Head(content).n ELSE 0) + chineseChars(Tail(content))

\* The ideographs removed, split(/\s+/), the empty strings dropped: the
\* number of tokens from run i on, `open` telling whether a token is under way
RECURSIVE words(_, _, _)
words(content, i, open) ==
    IF i > Len(content) THEN 0
    ELSE LET r == content[i] IN
         CASE r.ch = "han" -> words(content, i + 1, open)
           [] r.ch = "space" -> words(content, i + 1, FALSE)
           [] r.ch = "latin" -> (IF open THEN 0 ELSE 1) + words(content, i + 1, TRUE)
           [] OTHER -> (IF open THEN r.n - 1 ELSE r.n) + words(content, i + 1, FALSE)

\* Math.ceil(a / x + b / y)
CeilOfSum(a, x, b, y) == (a * y + b * x + x * y - 1) \div (x * y)

\* the result without Math.max(1, ...)
calculateReadingTime_NoClamp(content) ==
    CeilOfSum(chineseChars(content), 400, words(content, 1, FALSE), 200)

calculateReadingTime(content) ==
    LET readingTime == CeilOfSum(chineseChars(content), 400, words(content, 1, FALSE), 200)
    IN IF readingTime > 1 THEN readingTime ELSE 1

CalculateReadingTime(content) ==
    /\ applied = NotApplied
    /\ applied' = [fn |-> "readingTime", input |-> content,
                   out |-> calculateReadingTime(content)]
    /\ UNCHANGED <<kvVars, now, memVars, envVars, feedCalls, notPager, pager>>

\* A list item with every field fetchArticles / fetchPhotos give it: the texts,
\* the cover (undefined without one), the creation time, the metadata.
NotionItem(id, ms, image, album) ==
    Obj([id |-> TextStr(id), type |-> TextStr("photo"), title |-> TextStr(""),
         date |-> DateV(ms), image |-> image,
         metadata |-> Obj([album |-> album, tags |-> Arr(<<TextStr("date")>>)])])

\* kvSet(key, list) whose put lands, then kvGet(key) before the entry expires
KvRoundTrip(list) ==
    /\ applied = NotApplied
    /\ LET stored == JSONStringify(Arr(list))
           got == kvGet("kv", FALSE, stored)
       IN applied' = [fn |-> "roundTrip", input |-> Arr(list), stored |-> stored,
                      success |-> kvSetResult(FALSE).success, out |-> got.data]
    /\ UNCHANGED <<kvVars, now, memVars, envVars, feedCalls, notPager, pager>>

\* The items lists are made of here
NotionItems(maxMs) ==
    {NotionItem(id, ms, image, album) :
        id \in {"p1"}, ms \in 0..maxMs,
        image \in {Undef, TextStr("cover.jpg")}, album \in {Undef, TextStr("trip")}}

\* Every list of up to `len` items
ListsUpTo(len) == UNION {[1..k -> NotionItems(MaxClock + 1)] : k \in 0..len}

\* The runs texts are made of here
Runs == {Run(ch, n) : ch \in {"han", "latin", "space", "words"}, n \in {1, 50, 400, 800}}

\* Every text of up to `len` runs
TextsUpTo(len) == UNION {[1..k -> Runs] : k \in 0..len}

----------------------------------------------------------------------------
(* Pagination: notion.ts fetchAllArticlesInternal, fetchAllPhotosInternal *)

\* response.next_cursor: null, a string, possibly the empty one
NextCursors == {"null", "", "c1", "c2"}

\* What one query can answer with next to its results
Answers == [hasMore : BOOLEAN, nextCursor : NextCursors]

\* startCursor: nextCursor || undefined
StartCursor(nextCursor) == IF nextCursor \in {"null", ""} THEN "undefined" ELSE nextCursor

IdlePager ==
    [pc |-> "idle", op |-> "none", hasMore |-> TRUE, nextCursor |-> "null",
     requested |-> <<>>, all |-> <<>>]

\* fetchAllArticlesInternal() / fetchAllPhotosInternal(), up to the first
\* await: hasMore = true, nextCursor = null, the first query is issued.
FetchAllInternal(op) ==
    /\ pager.pc = "idle"
    /\ pager' = [IdlePager EXCEPT !.pc = "await", !.op = op,
                                  !.requested = <<StartCursor("null")>>]
    /\ UNCHANGED <<kvVars, now, memVars, envVars, feedCalls, notPager, applied>>

\* The query resolved with the page that its start cursor names and with
\* `answer`: the page is pushed, hasMore and nextCursor are taken over, and
\* the loop either ends or issues the next query.
FetchPageResolve(answer) ==
    /\ pager.pc = "await"
    /\ LET page == pager.requested[Len(pager.requested)]
           pushed == [pager EXCEPT !.all = Append(@, page),
                                   !.hasMore = answer.hasMore,
                                   !.nextCursor = answer.nextCursor]
       IN IF ~pushed.hasMore
          THEN pager' = [pushed EXCEPT !.pc = "done"]
          ELSE /\ Len(pager.requested) < MaxRequests
               /\ pager' = [pushed EXCEPT
                                !.requested = Append(@, StartCursor(pushed.nextCursor))]
    /\ UNCHANGED <<kvVars, now, memVars, envVars, feedCalls, notPager, applied>>

\* The query rejected: the loop has no catch.
FetchPageReject ==
    /\ pager.pc = "await"
    /\ pager' = [pager EXCEPT !.pc = "threw"]
    /\ UNCHANGED <<kvVars, now, memVars, envVars, feedCalls, notPager, applied>>

----------------------------------------------------------------------------
(* The image proxy: pages/api/proxy-image.ts *)

\* url.searchParams.get('url'): null, '', or a URL given by its host and
\* whether the text 'doubanio.com' stands in its path or query.
NoUrl == [kind |-> "null"]
EmptyUrl == [kind |-> "empty"]
Url(host, rest) == [kind |-> "url", host |-> host, rest |-> rest]
ProxyHosts == {"img1.doubanio.com", "evil.example", "doubanio.com.evil.example"}
ProxyUrls == {NoUrl, EmptyUrl} \cup {Url(h, r) : h \in ProxyHosts, r \in BOOLEAN}

\* imageUrl.includes('doubanio.com')
Includes(imageUrl) ==
    imageUrl.host \in {"img1.doubanio.com", "doubanio.com.evil.example"} \/ imageUrl.rest

ProxyIds == 1..MaxProxyReqs

IdleProxy ==
    [pc |-> "idle", url |-> NoUrl, sent |-> FALSE, up |-> "none", upStatus |-> 0,
     upBody |-> "none", status |-> 0, body |-> "none", cacheControl |-> "none"]

Respond(r, status, body, cacheControl) ==
    [r EXCEPT !.pc = "done", !.status = status, !.body = body, !.cacheControl = cacheControl]

\* GET, up to `await fetch(imageUrl, ...)`
ProxyGet(q, imageUrl) ==
    /\ proxy[q].pc = "idle"
    /\ q > 1 => proxy[q - 1].pc # "idle"
    /\ LET r == [IdleProxy EXCEPT !.url = imageUrl]
       IN proxy' = [proxy EXCEPT ![q] =
            IF imageUrl.kind \in {"null", "empty"}
            THEN Respond(r, 400, "Missing url parameter", "none")
            ELSE IF ~Includes(imageUrl)
                 THEN Respond(r, 403, "Only doubanio.com images are allowed", "none")
                 ELSE [r EXCEPT !.pc = "fetch", !.sent = TRUE]]
    /\ UNCHANGED <<kvVars, now, memVars, envVars, feedCalls, envLog, doubanFeed, current, archive,
                   pages, slugCall, idFetch, overtaken, afterFailure, sideVars, pager, applied>>

\* fetch resolved with a response of this status and these bytes
ProxyFetchResolve(q, upStatus, bytes) ==
    /\ proxy[q].pc = "fetch"
    /\ LET r == [proxy[q] EXCEPT !.up = "response", !.upStatus = upStatus, !.upBody = bytes]
       IN proxy' = [proxy EXCEPT ![q] =
            IF ~(upStatus >= 200 /\ upStatus <= 299)
            THEN Respond(r, upStatus, "Failed to fetch image", "none")
            ELSE Respond(r, 200, bytes, "public, max-age=86400")]
    /\ UNCHANGED <<kvVars, now, memVars, envVars, feedCalls, envLog, doubanFeed, current, archive,
                   pages, slugCall, idFetch, overtaken, afterFailure, sideVars, pager, applied>>

\* fetch (or reading the body) threw
ProxyFetchReject(q) ==
    /\ proxy[q].pc = "fetch"
    /\ proxy' = [proxy EXCEPT ![q] =
            Respond([proxy[q] EXCEPT !.up = "threw"], 500, "Error fetching image", "none")]
    /\ UNCHANGED <<kvVars, now, memVars, envVars, feedCalls, envLog, doubanFeed, current, archive,
                   pages, slugCall, idFetch, overtaken, afterFailure, sideVars, pager, applied>>

InitAux ==
    /\ envLog = NoLookup
    /\ doubanFeed = <<>>
    /\ current = IdleCurrent
    /\ archive = NoArchive
    /\ proxy = [q \in ProxyIds |-> IdleProxy]
    /\ pages = <<>>
    /\ slugCall = IdleSlug
    /\ idFetch = NoIdFetch
    /\ overtaken = {}
    /\ afterFailure = {}
    /\ InitSide
    /\ pager = IdlePager
    /\ applied = NotApplied

----------------------------------------------------------------------------
(* Specifications *)

InitKV ==
    /\ runtimeEnvWithKV = "null"
    /\ store = [k \in Keys |-> Absent]
    /\ calls = [c \in CallIds |-> IdleCall]
    /\ puts = {}
    /\ delDone = [k \in Keys |-> FALSE]

Init ==
    /\ InitKV
    /\ globalKV \in BOOLEAN
    /\ now = 0
    /\ InitMem
    /\ InitEnv
    /\ feedCalls = [c \in FeedCallIds |-> IdleFeedCall]
    /\ InitAux

Next ==
    \/ \E env \in {"noKV", "withKV"} : SetRuntimeKVEnv(env)
    \/ Tick
    \/ \E c \in CallIds : GetAllArticles(c)
    \/ \E c \in CallIds : GetAllPhotos(c)
    \/ \E c \in CallIds : FetchArticle(c)
    \/ \E c \in CallIds, thrown \in BOOLEAN : KvGetSettle(c, thrown)
    \/ \E c \in CallIds, v \in ListResults \cup ArticleResults : FetcherResolve(c, v)
    \/ \E c \in CallIds : FetcherReject(c)
    \/ \E p \in puts, thrown \in BOOLEAN : KvPutSettle(p, thrown)
    \/ \E c \in CallIds, key \in Keys : KvDeleteCall(c, key)
    \/ \E c \in CallIds, thrown \in BOOLEAN : KvDeleteSettle(c, thrown)

Spec == Init /\ [][Next]_vars

\* Cached reads of one key with the store bound, and the write-backs watched
InitSpecWB ==
    /\ InitKV
    /\ globalKV = TRUE
    /\ now = 0
    /\ InitMem
    /\ InitEnv
    /\ feedCalls = [c \in FeedCallIds |-> IdleFeedCall]
    /\ InitAux

NextWB ==
    \/ \E c \in CallIds : GetAllArticles(c)
    \/ \E c \in CallIds : FetchArticle(c)
    \/ \E c \in CallIds, thrown \in BOOLEAN : KvGetSettle(c, thrown)
    \/ \E c \in CallIds, v \in ListResults \cup ArticleResults : FetcherResolve(c, v)
    \/ \E c \in CallIds : FetcherReject(c)
    \/ \E p \in puts, thrown \in BOOLEAN : KvPutSettleObserved(p, thrown)

SpecWB == InitSpecWB /\ [][NextWB]_vars

\* The in-process cache alone
InitSpecMem ==
    /\ InitKV
    /\ globalKV = FALSE
    /\ now = 0
    /\ InitMem
    /\ InitEnv
    /\ feedCalls = [c \in FeedCallIds |-> IdleFeedCall]
    /\ InitAux

NextMem ==
    \/ \E data \in MemValues : MemSet(data)
    \/ MemClear
    \/ MemGet
    \/ MemTick

SpecMem == InitSpecMem /\ [][NextMem]_vars

\* The build-time configurations SpecFeed starts from
FeedTiers ==
    {NoTier,
     TierOf({NOTION_API_KEY, NOTION_ARTICLES_DATABASE_ID}, "a"),
     TierOf({DOUBAN_USER_RSS, TELEGRAM_CHANNEL_USERNAME}, "a"),
     TierOf(EnvKeys, "a")}

InitSpecFeed ==
    /\ InitKV
    /\ globalKV = FALSE
    /\ now = 0
    /\ InitMem
    /\ runtimeEnv = NoRuntimeEnv
    /\ importMetaEnv \in FeedTiers
    /\ processEnv = NoTier
    /\ feedCalls = [c \in FeedCallIds |-> IdleFeedCall]
    /\ InitAux

NextFeed ==
    \/ \E c \in FeedCallIds, useMock \in BOOLEAN : BeginGetFeedItems(c, useMock)
    \/ \E c \in FeedCallIds, a \in Adapters :
            \E items \in AdapterResults(a) : AdapterResolve(c, a, items)
    \/ \E c \in FeedCallIds, a \in Adapters : AdapterReject(c, a)
    \/ \E c \in FeedCallIds, a \in Adapters, failure \in UpstreamFailures :
            AdapterUpstreamFails(c, a, failure)
    \/ MemTick

SpecFeed == InitSpecFeed /\ [][NextFeed]_vars

\* Every placement of the keys in the three tiers
GateTiers(v) == {TierOf(S, v) : S \in SUBSET EnvKeys}

InitSpecGate ==
    /\ InitKV
    /\ globalKV = FALSE
    /\ now = 0
    /\ InitMem
    /\ runtimeEnv = NoRuntimeEnv
    /\ importMetaEnv \in GateTiers("a")
    /\ processEnv \in GateTiers("a")
    /\ feedCalls = [c \in FeedCallIds |-> IdleFeedCall]
    /\ InitAux

NextGate ==
    \/ \E env \in GateTiers("b") : ~runtimeEnv.set /\ SetRuntimeEnv(env)
    \/ \E c \in FeedCallIds : BeginGetFeedItems(c, FALSE)

SpecGate == InitSpecGate /\ [][NextGate]_vars

\* Requests to /api/feed, each injecting its own runtime env, their
\* aggregations in flight together
ReqEnvs(v) ==
    {TierOf({DOUBAN_USER_RSS, TELEGRAM_CHANNEL_USERNAME}, v),
     TierOf({TELEGRAM_CHANNEL_USERNAME}, v),
     TierOf(EnvKeys, v)}
ReqValue(c) == IF c = 1 THEN "r1" ELSE "r2"

InitSpecReq ==
    /\ InitKV
    /\ globalKV = FALSE
    /\ now = 0
    /\ InitMem
    /\ runtimeEnv = NoRuntimeEnv
    /\ importMetaEnv \in FeedTiers
    /\ processEnv = NoTier
    /\ feedCalls = [c \in FeedCallIds |-> IdleFeedCall]
    /\ InitAux

NextReq ==
    \/ \E c \in FeedCallIds : \E env \in ReqEnvs(ReqValue(c)) : FeedRequest(c, env)
    \/ \E c \in FeedCallIds, a \in Adapters :
            \E items \in AdapterResults(a) : AdapterResolve(c, a, items)
    \/ \E c \in FeedCallIds, a \in Adapters : AdapterReject(c, a)

SpecReq == InitSpecReq /\ [][NextReq]_vars

\* The media log's current items over every feed
InitSpecCurrent ==
    /\ InitKV
    /\ globalKV = FALSE
    /\ now = 0
    /\ InitMem
    /\ runtimeEnv = NoRuntimeEnv
    /\ importMetaEnv \in {NoTier, TierOf({DOUBAN_USER_RSS}, "a")}
    /\ processEnv = NoTier
    /\ feedCalls = [c \in FeedCallIds |-> IdleFeedCall]
    /\ envLog = NoLookup
    /\ doubanFeed = <<>>
    /\ current = IdleCurrent
    /\ archive = NoArchive
    /\ proxy = [q \in ProxyIds |-> IdleProxy]
    /\ pages = <<>>
    /\ slugCall = IdleSlug
    /\ idFetch = NoIdFetch
    /\ overtaken = {}
    /\ afterFailure = {}
    /\ InitSide
    /\ pager = IdlePager
    /\ applied = NotApplied

NextCurrent ==
    \/ \E kw \in TitleKinds : DoubanFeedGrows(kw)
    \/ GetCurrentItems
    \/ CurrentItemsResolve
    \/ CurrentItemsReject

SpecCurrent == InitSpecCurrent /\ [][NextCurrent]_vars

\* Archive grouping over every list
InitSpecArchive ==
    /\ InitKV
    /\ globalKV = FALSE
    /\ now = 0
    /\ InitMem
    /\ InitEnv
    /\ feedCalls = [c \in FeedCallIds |-> IdleFeedCall]
    /\ envLog = NoLookup
    /\ doubanFeed = <<>>
    /\ current = IdleCurrent
    /\ \E items \in ArchiveInputs :
            archive = [items |-> items, given |-> items, outs |-> <<>>]
    /\ proxy = [q \in ProxyIds |-> IdleProxy]
    /\ pages = <<>>
    /\ slugCall = IdleSlug
    /\ idFetch = NoIdFetch
    /\ overtaken = {}
    /\ afterFailure = {}
    /\ InitSide
    /\ pager = IdlePager
    /\ applied = NotApplied

NextArchive == GetArchiveGroups

SpecArchive == InitSpecArchive /\ [][NextArchive]_vars

\* The image proxy under requests for every kind of url parameter
NextProxy ==
    \/ \E q \in ProxyIds, imageUrl \in ProxyUrls : ProxyGet(q, imageUrl)
    \/ \E q \in ProxyIds, upStatus \in {200, 404, 503}, bytes \in {"b1", "b2"} :
            ProxyFetchResolve(q, upStatus, bytes)
    \/ \E q \in ProxyIds : ProxyFetchReject(q)

SpecProxy == InitSpecMem /\ [][NextProxy]_vars

\* Cache-clear requests over a store that holds some of the datasets
InitSpecClear ==
    /\ runtimeEnvWithKV \in {"null", "withKV"}
    /\ store \in [Keys -> {Absent, StoredList}]
    /\ store[ARTICLE_P1] = Absent
    /\ calls = [c \in CallIds |-> IdleCall]
    /\ puts = {}
    /\ delDone = [k \in Keys |-> FALSE]
    /\ globalKV \in BOOLEAN
    /\ now = 0
    /\ InitMem
    /\ InitEnv
    /\ feedCalls = [c \in FeedCallIds |-> IdleFeedCall]
    /\ InitAux

NextClear ==
    \/ \E c \in CallIds, env \in {"none", "noKV", "withKV"} : CacheClearRequest(c, env)
    \/ \E c \in CallIds, thrown \in BOOLEAN : CacheClearDeleteSettle(c, thrown)

SpecClear == InitSpecClear /\ [][NextClear]_vars

\* The pure functions, each applied to the inputs of its bounded set
InitSpecPure ==
    /\ InitKV
    /\ globalKV = FALSE
    /\ now = 0
    /\ InitMem
    /\ InitEnv
    /\ feedCalls = [c \in FeedCallIds |-> IdleFeedCall]
    /\ InitAux

NextPure ==
    \/ \E content \in Contents : ParseRating(content)
    \/ \E kw \in SUBSET {"reading", "watched", "watching", "listening", "wantRead", "wantWatch"} :
            ParseStatus(kw)
    \/ \E title \in [1..3 -> UNION {AliasValues(i) : i \in 1..3}],
          slug \in [1..2 -> UNION {AliasValues(i) : i \in 1..2}] :
            /\ \A i \in 1..3 : title[i] \in AliasValues(i)
            /\ \A i \in 1..2 : slug[i] \in AliasValues(i)
            /\ ExtractProperties(title, slug)
    \/ \E content \in TextsUpTo(MaxRuns) : CalculateReadingTime(content)
    \/ \E list \in ListsUpTo(MaxItems) : KvRoundTrip(list)

SpecPure == InitSpecPure /\ [][NextPure]_vars

\* The three entry points of index.ts, called one after another in any order
NoCallInFlight ==
    /\ \A c \in FeedCallIds : feedCalls[c].pc # "await"
    /\ \A f \in {"current", "archive"} : indexCall[f].pc # "await"

InitSpecCaches ==
    /\ InitKV
    /\ globalKV = FALSE
    /\ now = 0
    /\ InitMem
    /\ runtimeEnv = NoRuntimeEnv
    /\ importMetaEnv \in
            {NoTier, TierOf({NOTION_API_KEY, NOTION_ARTICLES_DATABASE_ID, DOUBAN_USER_RSS}, "a")}
    /\ processEnv = NoTier
    /\ feedCalls = [c \in FeedCallIds |-> IdleFeedCall]
    /\ InitAux

NextCaches ==
    \/ \E c \in FeedCallIds, useMock \in BOOLEAN :
            NoCallInFlight /\ BeginGetFeedItems(c, useMock)
    \/ \E c \in FeedCallIds, a \in Adapters :
            \E items \in AdapterResults(a) : AdapterResolve(c, a, items)
    \/ \E c \in FeedCallIds, a \in Adapters : AdapterReject(c, a)
    \/ NoCallInFlight /\ BeginGetCurrentItems
    \/ \E items \in DoubanCurrentResults : CurrentItemsArrive(items)
    \/ NoCallInFlight /\ BeginGetArchiveItems
    \/ \E articles \in AllArticlesResults : ArchiveArticlesArrive(articles)
    \/ ArchiveArticlesReject
    \/ NoCallInFlight /\ MemTick

SpecCaches == InitSpecCaches /\ [][NextCaches]_vars

\* Cached reads of the article list with the store bound, the producer
\* failing at times
InitSpecThrow ==
    /\ InitKV
    /\ globalKV = TRUE
    /\ now = 0
    /\ InitMem
    /\ InitEnv
    /\ feedCalls = [c \in FeedCallIds |-> IdleFeedCall]
    /\ InitAux

NextThrow ==
    \/ \E c \in CallIds : GetAllArticles(c)
    \/ \E c \in CallIds, thrown \in BOOLEAN : KvGetSettle(c, thrown)
    \/ \E c \in CallIds, v \in ListResults : FetcherResolve(c, v)
    \/ \E c \in CallIds : FetcherRejectObserved(c)
    \/ \E p \in puts, thrown \in BOOLEAN : KvPutSettle(p, thrown)
    \/ Tick

SpecThrow == InitSpecThrow /\ [][NextThrow]_vars

\* Cached reads of one article or of the article list with the store bound,
\* the article's producer giving null at times
InitSpecNull ==
    /\ InitKV
    /\ globalKV = TRUE
    /\ now = 0
    /\ InitMem
    /\ InitEnv
    /\ feedCalls = [c \in FeedCallIds |-> IdleFeedCall]
    /\ InitAux

NextNull ==
    \/ \E c \in CallIds : FetchArticle(c)
    \/ \E c \in CallIds : GetAllArticles(c)
    \/ \E c \in CallIds, thrown \in BOOLEAN : KvGetSettle(c, thrown)
    \/ \E c \in CallIds, v \in ListResults \cup ArticleResults : FetcherResolveObserved(c, v)
    \/ \E p \in puts, thrown \in BOOLEAN : KvPutSettle(p, thrown)
    \/ \E c \in CallIds, key \in {ARTICLES, ARTICLE_P1} : KvDeleteCall(c, key)
    \/ \E c \in CallIds, thrown \in BOOLEAN : KvDeleteSettle(c, thrown)
    \/ Tick

SpecNull == InitSpecNull /\ [][NextNull]_vars

\* The pagination loops
InitSpecPager ==
    /\ InitKV
    /\ globalKV = FALSE
    /\ now = 0
    /\ InitMem
    /\ InitEnv
    /\ feedCalls = [c \in FeedCallIds |-> IdleFeedCall]
    /\ InitAux

NextPager ==
    \/ \E op \in {"articles", "photos"} : FetchAllInternal(op)
    \/ \E answer \in Answers : FetchPageResolve(answer)
    \/ FetchPageReject

SpecPager == InitSpecPager /\ [][NextPager]_vars

\* Successive fetches of one unchanged upstream feed
InitSpecIds ==
    /\ InitKV
    /\ globalKV = FALSE
    /\ now = 0
    /\ InitMem
    /\ InitEnv
    /\ feedCalls = [c \in FeedCallIds |-> IdleFeedCall]
    /\ envLog = NoLookup
    /\ doubanFeed = <<>>
    /\ current = IdleCurrent
    /\ archive = NoArchive
    /\ proxy = [q \in ProxyIds |-> IdleProxy]
    /\ pages = <<>>
    /\ slugCall = IdleSlug
    /\ idFetch \in {[NoIdFetch EXCEPT !.feed = f] : f \in IdFeeds}
    /\ overtaken = {}
    /\ afterFailure = {}
    /\ InitSide
    /\ pager = IdlePager
    /\ applied = NotApplied

NextIds ==
    \E adapter \in {"telegram", "douban"}, dateNow \in 0..MaxClock,
       random \in [1..MaxIdFeedLen -> Randoms] : FetchIds(adapter, dateNow, random)

SpecIds == InitSpecIds /\ [][NextIds]_vars

\* getArticleBySlug over every state of the articles database
InitSpecArticle ==
    /\ InitKV
    /\ globalKV = FALSE
    /\ now = 0
    /\ InitMem
    /\ runtimeEnv = NoRuntimeEnv
    /\ importMetaEnv \in {NoTier, TierOf({NOTION_API_KEY, NOTION_ARTICLES_DATABASE_ID}, "a")}
    /\ processEnv = NoTier
    /\ feedCalls = [c \in FeedCallIds |-> IdleFeedCall]
    /\ envLog = NoLookup
    /\ doubanFeed = <<>>
    /\ current = IdleCurrent
    /\ archive = NoArchive
    /\ proxy = [q \in ProxyIds |-> IdleProxy]
    /\ pages \in PageSets
    /\ slugCall = IdleSlug
    /\ idFetch = NoIdFetch
    /\ overtaken = {}
    /\ afterFailure = {}
    /\ InitSide
    /\ pager = IdlePager
    /\ applied = NotApplied

NextArticle ==
    \/ \E slug \in {"hello", "world", "p1", "p2", "nope", "reading"} : GetArticleBySlug(slug)
    \/ \E ps \in PageSets : SlugListResolve(ps)
    \/ SlugListReject
    \/ \E fails \in BOOLEAN : SlugArticleResolve(fails)

SpecArticle == InitSpecArticle /\ [][NextArticle]_vars

\* The resolver alone: every mix of absent, empty and set entries in the tiers
InitSpecEnv ==
    /\ InitKV
    /\ globalKV = FALSE
    /\ now = 0
    /\ InitMem
    /\ runtimeEnv = NoRuntimeEnv
    /\ importMetaEnv \in TiersOver({UNDEF, "", "a"})
    /\ processEnv \in TiersOver({UNDEF, "", "c"})
    /\ feedCalls = [c \in FeedCallIds |-> IdleFeedCall]
    /\ InitAux

NextEnv ==
    \/ \E env \in TiersOver({UNDEF, "", "b", OBJECT}) : SetRuntimeEnv(env)
    \/ \E key \in {DOUBAN_USER_RSS, TELEGRAM_CHANNEL_USERNAME} : GetEnv(key)

SpecEnv == InitSpecEnv /\ [][NextEnv]_vars

----------------------------------------------------------------------------
(* Claims about the durable cache, checked under Spec *)

ReaderCalls == {c \in CallIds : calls[c].op \in Readers}

\* C1 (as stated): a cached read that finds an unexpired entry under its key
\* returns the entry's value and never invokes the producer; one that finds
\* nothing invokes the producer exactly once and returns its result; so once a
\* write-back has landed, a read within the TTL is served from the store.
C1_Original ==
    \A c \in ReaderCalls :
        (calls[c].avail /\ calls[c].pc = "done") =>
            /\ calls[c].seen.st = "held" =>
                    /\ calls[c].n = 0
                    /\ calls[c].ret = calls[calls[c].seen.by].prod
            /\ calls[c].seen.st = "absent" =>
                    /\ calls[c].n = 1
                    /\ calls[c].ret = calls[c].prod

\* C1 (amended): the same, for an entry whose value is not null: a read that
\* finds an unexpired non-null entry returns the value its writer's producer
\* gave (dates revived) with no producer invocation; a read that finds no
\* entry invokes the producer exactly once and returns its result.
C1_ReadThrough ==
    \A c \in ReaderCalls :
        (calls[c].avail /\ calls[c].pc = "done") =>
            /\ (calls[c].seen.st = "held" /\ calls[c].seen.json # NullV) =>
                    /\ calls[c].n = 0
                    /\ calls[c].ret = calls[calls[c].seen.by].prod
            /\ calls[c].seen.st = "absent" =>
                    /\ calls[c].n = 1
                    /\ calls[c].ret = calls[c].prod

\* A second call, after the first call's write-back landed and time has
\* passed within the TTL, is served the first call's list without a fetch.
C1_Witness ==
    \E c \in ReaderCalls :
        /\ calls[c].pc = "done" /\ calls[c].seen.st = "held"
        /\ calls[c].seen.by # c /\ calls[calls[c].seen.by].n = 1
        /\ calls[c].n = 0 /\ calls[c].ret = Arr(<<Item("a1", 1)>>)
        /\ now > 0

\* C2: a cached read that begins after a kvDelete of its key succeeded (and
\* is the first to begin since) invokes the producer.
C2_DeleteForcesRefetch ==
    \A c \in ReaderCalls :
        (calls[c].afterDel /\ calls[c].pc = "done") => calls[c].n = 1

\* C3: a cached read that begins while no store binding is available calls
\* the producer at once and returns its result, and issues no get, put or
\* delete, also when a binding appears while it awaits the producer.
C3_UnavailableBypass ==
    \A c \in ReaderCalls :
        ~calls[c].avail =>
            /\ calls[c].n = 1
            /\ ~calls[c].touched
            /\ calls[c].seen = Unread /\ calls[c].setRes = "none"
            /\ \A p \in puts : p.by # c
            /\ \A k \in Keys : store[k].by # c
            /\ calls[c].pc = "done" => calls[c].ret = calls[c].prod

\* A bypassing call has returned while the binding has meanwhile appeared.
C3_Witness ==
    \E c \in ReaderCalls :
        /\ ~calls[c].avail /\ calls[c].pc = "done"
        /\ calls[c].ret = Arr(<<Item("a1", 1)>>)
        /\ isKVAvailable(runtimeEnvWithKV, globalKV)

\* C4: a rejected kv.get is a miss (the producer runs and its result is
\* returned), a rejected kv.put leaves kvSet unsuccessful and the returned
\* value the producer's, a rejected kv.delete lets kvDelete return; a call
\* ends in an exception only when its producer threw.
C4_StoreFailuresContained ==
    \A c \in CallIds :
        /\ calls[c].seen.st = "threw" =>
                /\ calls[c].n = 1
                /\ calls[c].pc = "done" => calls[c].ret = calls[c].prod
        /\ calls[c].setRes = "failed" =>
                calls[c].pc = "done" /\ calls[c].ret = calls[c].prod
        /\ calls[c].delFailed => calls[c].pc = "done"
        /\ calls[c].pc = "threw" => calls[c].threwBy = "producer"

\* One call met a rejected get and a rejected put, another a rejected delete.
C4_Witness ==
    /\ \E c \in ReaderCalls :
            /\ calls[c].seen.st = "threw" /\ calls[c].setRes = "failed"
            /\ calls[c].pc = "done" /\ calls[c].ret = calls[c].prod
    /\ \E c \in CallIds : calls[c].delFailed /\ calls[c].pc = "done"

----------------------------------------------------------------------------
(* Claims about the in-process cache, checked under SpecMem *)

\* C5: get() gives the value of the most recent set() exactly when no
\* clear() came after that set() and less than the TTL has elapsed since it,
\* and gives null otherwise (never set, cleared, TTL reached), the empty
\* list included among the values.
C5_GetIffLiveAndFresh ==
    cacheLog.lastGet.done =>
        cacheLog.lastGet.val =
            IF /\ cacheLog.lastSet.live
               /\ cacheLog.lastGet.at - cacheLog.lastSet.at < 5 * 60 * 1000
            THEN cacheLog.lastSet.val
            ELSE NullV

\* An empty list was set, time passed within the TTL, and get() gave it back.
C5_Witness ==
    /\ cacheLog.lastGet.done
    /\ cacheLog.lastSet.val = Arr(<<>>)
    /\ cacheLog.lastGet.val = Arr(<<>>)
    /\ cacheLog.lastGet.at > cacheLog.lastSet.at

----------------------------------------------------------------------------
(* Claims about getFeedItems, checked under SpecFeed and SpecGate *)

NonIncreasing(items) ==
    \A i \in 1..(Len(items) - 1) : items[i].date >= items[i + 1].date

\* Where an item stands in the merge: its adapter's place, then its place in
\* what that adapter returned.
AdapterRank(a) ==
    CASE a = "articles" -> 1 [] a = "photos" -> 2 [] a = "douban" -> 3 [] OTHER -> 4
PlaceIn(list, item) == CHOOSE i \in DOMAIN list : list[i] = item
Before(got, x, y) ==
    \/ AdapterRank(x.src) < AdapterRank(y.src)
    \/ x.src = y.src /\ PlaceIn(got[x.src], x) < PlaceIn(got[y.src], y)

\* C6: a call with useMock set, or with no adapter configured, returns the
\* static fallback dataset and invokes no adapter, whatever the cache holds.
C6_FallbackOnMockOrUnconfigured ==
    \A c \in FeedCallIds :
        (feedCalls[c].pc # "idle"
            /\ (feedCalls[c].useMock \/ feedCalls[c].configured = {})) =>
            /\ feedCalls[c].pc = "done"
            /\ feedCalls[c].ret = mockFeedItems
            /\ feedCalls[c].invoked = {}

\* C7: every list getFeedItems returns is non-increasing by date.
C7_OutputNonIncreasing ==
    \A c \in FeedCallIds :
        feedCalls[c].pc = "done" => NonIncreasing(feedCalls[c].ret)

\* C8: in a freshly aggregated result, items of equal date stand in merge
\* order: articles, photos, media log, channel feed, and within one adapter
\* in the order it returned them; the result holds every returned item.
C8_TiesKeepMergeOrder ==
    \A c \in FeedCallIds :
        (feedCalls[c].pc = "done" /\ feedCalls[c].from = "fresh") =>
            LET out == feedCalls[c].ret
                got == feedCalls[c].got
            IN /\ Len(out) = Len(got["articles"]) + Len(got["photos"])
                                + Len(got["douban"]) + Len(got["telegram"])
               /\ \A a \in Adapters : \A k \in DOMAIN got[a] :
                        \E i \in DOMAIN out : out[i] = got[a][k]
               /\ \A i, j \in DOMAIN out :
                        (i < j /\ out[i].date = out[j].date) => Before(got, out[i], out[j])

\* All four adapters contributed and five items share the newest date.
C8_Witness ==
    \E c \in FeedCallIds :
        /\ feedCalls[c].pc = "done" /\ feedCalls[c].from = "fresh"
        /\ Len(feedCalls[c].ret) = 7
        /\ \A i \in 1..5 : feedCalls[c].ret[i].date = 2
        /\ feedCalls[c].ret[1].id = "a1" /\ feedCalls[c].ret[5].id = "t2"

\* C9: a call one of whose adapters raised has returned the static fallback
\* dataset, neither throwing nor handing on the other adapters' items, and
\* has not written the in-process cache.
C9_RejectFallsBack ==
    \A c \in FeedCallIds :
        feedCalls[c].raised =>
            /\ feedCalls[c].pc = "done"
            /\ feedCalls[c].ret = mockFeedItems
            /\ cacheLog.lastSet.by # c
            /\ feedCalls[c].warm = FALSE

\* The document store raised after the media log had delivered its items,
\* the cache being empty.
C9_Witness ==
    \E c \in FeedCallIds :
        /\ feedCalls[c].raised /\ feedCalls[c].got["douban"] # <<>>
        /\ feedCalls[c].ret = mockFeedItems
        /\ feedItemsCache = EmptyCache

\* C20: every call that misses the in-process cache (and is neither asked for
\* the fallback nor without adapters) invokes the configured adapters itself,
\* other calls being under way or not; and the in-process cache is always
\* either empty or the result of the call whose set ran last: every adapter
\* that call invoked has delivered, the cached list holds exactly the items
\* they delivered to it, and it is non-increasing by date.
C20_CacheHoldsOneWholeResult ==
    /\ \A c \in FeedCallIds :
            (feedCalls[c].pc # "idle" /\ ~feedCalls[c].warm /\ ~feedCalls[c].useMock
                /\ feedCalls[c].configured # {}) =>
                feedCalls[c].invoked = feedCalls[c].configured
    /\ \/ feedItemsCache = EmptyCache
       \/ /\ cacheLog.lastSet.by \in FeedCallIds
          /\ LET call == feedCalls[cacheLog.lastSet.by]
                 held == feedItemsCache.cachedData.elems
             IN /\ call.pc = "done" /\ call.from = "fresh"
                /\ call.pending = {}
                /\ held = call.ret
                /\ NonIncreasing(held)
                /\ Len(held) = Len(call.got["articles"]) + Len(call.got["photos"])
                                 + Len(call.got["douban"]) + Len(call.got["telegram"])
                /\ \A i \in DOMAIN held : \E k \in DOMAIN call.got[held[i].src] :
                        call.got[held[i].src][k] = held[i]
                /\ \A a \in Adapters : \A k \in DOMAIN call.got[a] :
                        \E i \in DOMAIN held : held[i] = call.got[a][k]

\* Two calls missed and fetched at the same time with different results; the
\* first to begin set the cache last, and its result is the one cached.
C20_Witness ==
    /\ feedCalls[1].pc = "done" /\ feedCalls[1].from = "fresh"
    /\ feedCalls[2].pc = "done" /\ feedCalls[2].from = "fresh"
    /\ ~feedCalls[1].warm /\ ~feedCalls[2].warm
    /\ feedCalls[1].ret # feedCalls[2].ret /\ Len(feedCalls[1].ret) >= 3
    /\ cacheLog.lastSet.by = 1
    /\ feedItemsCache.cachedData = Arr(feedCalls[1].ret)

\* C21: a failure upstream of the media log or of the channel feed never
\* raises out of the adapter: the adapter contributes an empty list, and the
\* call, unless the document store rejected, returns the freshly merged items
\* of the other adapters and not the fallback dataset.
C21_SourceOutageGivesEmptyList ==
    \A c \in FeedCallIds :
        feedCalls[c].failed # {} =>
            /\ feedCalls[c].raisedBy \notin {"douban", "telegram"}
            /\ \A a \in feedCalls[c].failed : feedCalls[c].got[a] = <<>>
            /\ (feedCalls[c].pc = "done" /\ ~feedCalls[c].raised) =>
                    /\ feedCalls[c].from = "fresh"
                    /\ Len(feedCalls[c].ret) =
                            Len(feedCalls[c].got["articles"]) + Len(feedCalls[c].got["photos"])
                            + Len(feedCalls[c].got["douban"]) + Len(feedCalls[c].got["telegram"])
                    /\ \A a \in Adapters : \A k \in DOMAIN feedCalls[c].got[a] :
                            \E i \in DOMAIN feedCalls[c].ret :
                                feedCalls[c].ret[i] = feedCalls[c].got[a][k]

\* The channel feed's source failed; the call returned the document store's
\* and the media log's items.
C21_Witness ==
    \E c \in FeedCallIds :
        /\ feedCalls[c].failed = {"telegram"} /\ feedCalls[c].pc = "done"
        /\ feedCalls[c].from = "fresh" /\ Len(feedCalls[c].ret) = 5
        /\ feedCalls[c].ret # mockFeedItems

\* C10: a call that goes past the cache without useMock invokes exactly the
\* adapters whose keys resolve through the resolver's three tiers, and
\* returns the fallback at once exactly when none resolves.
C10_GateFollowsResolver ==
    \A c \in FeedCallIds :
        (feedCalls[c].pc # "idle" /\ ~feedCalls[c].warm /\ ~feedCalls[c].useMock) =>
            /\ feedCalls[c].invoked = feedCalls[c].resolved
            /\ feedCalls[c].from = "mock" <=> feedCalls[c].resolved = {}

\* The calls that went on to their producer after a miss
Missed(d) == calls[d].pc \in {"fetch", "done", "threw"} /\ calls[d].n = 1

\* C19 as stated: a second call on the key that was issued before a
\* write-back landed (the write landed while the call's store read was in
\* flight) observes a miss and invokes the producer again.
C19_Original ==
    \A d \in CallIds :
        (d \in overtaken /\ calls[d].pc \notin {"idle", "get"}) => Missed(d)

\* C19: a call that missed returns its producer's value in the step the
\* producer resolves, with the write-back pending or not issued, and no later
\* step (the write landing or failing among them) changes what it returned;
\* and a second call on the key whose store read is answered while a
\* write-back is pending and before any write-back has landed observes a miss
\* and goes on to its producer.
C19_WriteBackNotAwaited ==
    [][/\ \A c \in CallIds :
            /\ (calls[c].pc = "fetch" /\ calls'[c].pc \notin {"fetch", "threw"}) =>
                    /\ calls'[c].pc = "done"
                    /\ calls'[c].ret = calls'[c].prod
                    /\ calls'[c].ret \in ProducerResults(calls[c].op)
                    /\ calls'[c].setRes \in {"pending", "unavailable"}
            /\ calls[c].pc = "done" =>
                    calls'[c].pc = "done" /\ calls'[c].ret = calls[c].ret
        /\ \A d \in CallIds :
            (/\ calls[d].pc = "get" /\ calls'[d].pc # "get"
             /\ \E p \in puts : p.key = calls[d].key
             /\ \A e \in CallIds : calls[e].setRes # "ok") =>
                calls'[d].pc = "fetch" /\ calls'[d].n = 1]_vars

\* The first call returned with its write-back still pending, and the second,
\* begun after it, found nothing and returned its own producer's value, all
\* before that write landed.
C19_Witness ==
    \E c, d \in CallIds :
        /\ c < d
        /\ calls[c].pc = "done" /\ calls[c].setRes = "pending" /\ calls[c].n = 1
        /\ calls[d].seen.st = "absent"
        /\ calls[d].pc = "done" /\ calls[d].n = 1
        /\ calls[d].ret = calls[d].prod /\ calls[d].ret # calls[c].ret

----------------------------------------------------------------------------
(* Claims about the resolver, checked under SpecEnv *)

\* The tiers a lookup read, highest first
TiersRead == <<envLog.slot.env, importMetaEnv, processEnv>>
Holders(key) == {i \in 1..3 : TiersRead[i][key] \notin {UNDEF, ""}}

\* C11: getEnv(key) gives the entry of the first tier, in the order runtime
\* slot, build-time configuration, process environment, that holds a
\* non-empty value for key, whatever the lower tiers hold, and gives
\* undefined when no tier holds one.
C11_FirstTierWins ==
    envLog.done =>
        LET H == Holders(envLog.key) IN
        IF H = {} THEN envLog.val = UNDEF
        ELSE \E i \in H :
                /\ \A j \in H : i <= j
                /\ envLog.val = TiersRead[i][envLog.key]

\* The slot's value was returned although both lower tiers hold other values.
C11_Witness ==
    /\ envLog.done /\ envLog.val = "b"
    /\ importMetaEnv[envLog.key] = "a" /\ processEnv[envLog.key] = "c"

----------------------------------------------------------------------------
(* Claims about requests and the injected slot, checked under SpecReq *)

\* What a lookup of key gives a request that injected `inj`: its own
\* injected value first, then the build-time and the process tier.
SeenBy(inj, key) ==
    IF Truthy(inj.env[key]) THEN inj.env[key]
    ELSE IF Truthy(importMetaEnv[key]) THEN importMetaEnv[key]
    ELSE IF Truthy(processEnv[key]) THEN processEnv[key]
    ELSE UNDEF

\* C12: every configuration lookup made by the adapters of a request that
\* injected a runtime env gives what that request injected, until the
\* request's aggregation completes, also when another request's handler sets
\* the slot while the first awaits its adapters.
C12_LookupsSeeOwnInjection ==
    \A c \in FeedCallIds :
        feedCalls[c].injected.set =>
            \A l \in feedCalls[c].looked :
                l.val = SeenBy(feedCalls[c].injected, l.key)

----------------------------------------------------------------------------
(* Claims about the media log, checked under SpecCurrent *)

\* The feed positions whose parsed status is reading, watching or listening
InProgressAt ==
    {k \in DOMAIN doubanFeed :
        parseDoubanItem(doubanFeed[k]).status \in {"reading", "watching", "listening"}}

\* C13: getCurrentItems, its feed fetched, returns the first up-to-5 items of
\* the feed whose parsed status is reading, watching or listening, in feed
\* order: at most 5, none of another status, positions increasing, no
\* in-progress item before a returned one left out, and all of them when the
\* feed has fewer than 5.
C13_FirstFiveInProgress ==
    (current.pc = "done" /\ current.from = "feed") =>
        LET out == current.ret IN
        /\ Len(out) <= 5
        /\ \A i \in DOMAIN out :
                /\ out[i].n \in InProgressAt
                /\ out[i].type = parseDoubanItem(doubanFeed[out[i].n]).status
        /\ \A i, j \in DOMAIN out : i < j => out[i].n < out[j].n
        /\ \A k \in InProgressAt :
                (\E i \in DOMAIN out : k < out[i].n) => \E i \in DOMAIN out : out[i].n = k
        /\ Len(out) < 5 => \A k \in InProgressAt : \E i \in DOMAIN out : out[i].n = k

\* Six in-progress items in the feed, the first one after a completed item:
\* five are returned, from the second position on.
C13_Witness ==
    /\ current.pc = "done" /\ current.from = "feed"
    /\ Cardinality(InProgressAt) = 6 /\ Len(doubanFeed) > 6
    /\ Len(current.ret) = 5 /\ current.ret[1].n = 2

----------------------------------------------------------------------------
(* Claims about archive grouping, checked under SpecArchive *)

\* How often the item with this id stands in the groups
Occurrences(groups, id) ==
    Cardinality({<<g, i>> \in (DOMAIN groups) \X (1..Len(archive.given)) :
                    i \in DOMAIN groups[g].items /\ groups[g].items[i].id = id})

\* C14: the groups getArchiveGroups returns have strictly decreasing years,
\* items non-increasing by date within a group, count equal to the number of
\* items; every given item that is an article with a title stands in exactly
\* one group, that of its date's year, and no other item stands in any; a
\* second grouping of the same list gives the same groups; the caller's list
\* is left in its order.
C14_ArchiveGroups ==
    \A k \in DOMAIN archive.outs :
        LET groups == archive.outs[k]
            given == archive.given
        IN /\ \A g \in 1..(Len(groups) - 1) : groups[g].year > groups[g + 1].year
           /\ \A g \in DOMAIN groups :
                /\ \A i \in 1..(Len(groups[g].items) - 1) :
                        groups[g].items[i].date >= groups[g].items[i + 1].date
                /\ groups[g].count = Len(groups[g].items)
                /\ \A i \in DOMAIN groups[g].items :
                        LET it == groups[g].items[i] IN
                        /\ it.date \div 10000 = groups[g].year
                        /\ \E n \in DOMAIN given :
                                /\ given[n].id = it.id /\ given[n].date = it.date
                                /\ given[n].type = "article" /\ given[n].title # ""
           /\ \A n \in DOMAIN given :
                Occurrences(groups, given[n].id) =
                    IF given[n].type = "article" /\ given[n].title # "" THEN 1 ELSE 0
           /\ archive.outs[k] = archive.outs[1]
           /\ archive.items = given

\* A list out of date order, with an untitled article and a photo, grouped
\* twice into two years.
C14_Witness ==
    /\ Len(archive.outs) = 2 /\ Len(archive.outs[2]) = 2
    /\ archive.outs[2][1].count = 1 /\ archive.outs[2][2].count = 1
    /\ Len(archive.given) = 4
    /\ archive.given[1].date < archive.given[4].date

----------------------------------------------------------------------------
(* Claims about the image proxy, checked under SpecProxy *)

\* C15: the proxy answers 400 when the url parameter is missing; 403, with
\* nothing sent upstream, whenever the URL's host is not the allow-listed
\* origin; 500 whenever the upstream fetch fails, by an exception or by a
\* status that is not 2xx; and for an allow-listed host with upstream 200 the
\* upstream bytes with Cache-Control max-age=86400.
C15_ProxyContract ==
    \A q \in ProxyIds :
        proxy[q].pc # "idle" =>
            /\ proxy[q].url.kind \in {"null", "empty"} =>
                    proxy[q].status = 400 /\ ~proxy[q].sent
            /\ (proxy[q].url.kind = "url" /\ proxy[q].url.host # "img1.doubanio.com") =>
                    proxy[q].status = 403 /\ ~proxy[q].sent
            /\ (proxy[q].up = "threw" \/ (proxy[q].up = "response" /\ proxy[q].upStatus # 200)) =>
                    proxy[q].status = 500
            /\ (proxy[q].url.kind = "url" /\ proxy[q].url.host = "img1.doubanio.com"
                    /\ proxy[q].up = "response" /\ proxy[q].upStatus = 200) =>
                    /\ proxy[q].status = 200 /\ proxy[q].body = proxy[q].upBody
                    /\ proxy[q].cacheControl = "public, max-age=86400"

----------------------------------------------------------------------------
(* Claims about cache clearing, checked under SpecClear *)

\* C16: a cache-clear request that finds the durable store unavailable
\* answers 500 and issues no delete; one that answers 200 does so at a moment
\* when the store holds neither the all-articles nor the all-photos key.
C16_ClearedOrRefused ==
    \A c \in CallIds :
        (calls[c].op = "cacheClear" /\ calls[c].pc = "done") =>
            /\ ~calls[c].avail => (calls[c].status = 500 /\ ~calls[c].touched)
            /\ calls[c].status = 500 => ~calls[c].touched
            /\ calls[c].status = 200 => calls[c].present \cap {ARTICLES, PHOTOS} = {}

----------------------------------------------------------------------------
(* Claims about articles, checked under SpecArticle *)

\* The list items that match the slug asked for, by slug or by id
MatchingAt ==
    {i \in DOMAIN slugCall.list :
        slugCall.list[i].slug = slugCall.slug \/ slugCall.list[i].id = slugCall.slug}

----------------------------------------------------------------------------
(* Claims about item ids, checked under SpecIds *)

\* C18: two fetches of the same unchanged upstream feed by an adapter give
\* every record the same id both times, the records that carry neither a
\* guid nor a link included.
C18_IdsStable ==
    \A a, b \in DOMAIN idFetch.runs : idFetch.runs[a] = idFetch.runs[b]

----------------------------------------------------------------------------
(* Claims about pagination, checked under SpecPager *)

\* C22: whatever the upstream answers, no page is requested twice, every
\* request after the first passes the cursor the previous answer gave, and a
\* finished loop returns the pages it requested, each once, in order.
C22_EachPageOnce ==
    /\ \A i, j \in DOMAIN pager.requested :
            i < j => pager.requested[i] # pager.requested[j]
    /\ pager.pc = "done" => pager.all = pager.requested

----------------------------------------------------------------------------
(* Claims about the pure functions, checked under SpecPure *)

\* C23: whenever the star pattern matches, rating is the number of full
\* stars and maxRating is 5, whatever else the text holds; without a star
\* match a numeric N/M gives rating N of M.
C23_FirstRatingStageWins ==
    applied.fn = "rating" =>
        /\ applied.input.stars # <<>> =>
                /\ applied.out.rating =
                        Cardinality({i \in DOMAIN applied.input.stars :
                                        applied.input.stars[i] = "full"})
                /\ applied.out.maxRating = 5
        /\ (applied.input.stars = <<>> /\ applied.input.num # NoNum) =>
                /\ applied.out.rating = applied.input.num.n
                /\ applied.out.maxRating = applied.input.num.max

\* C24: a title containing a reading keyword gives in_progress, one
\* containing a want-to-read keyword gives wishlist, one containing no status
\* keyword gives completed; in general the in-progress groups give
\* in_progress and the want groups wishlist.
C24_StatusBuckets ==
    applied.fn = "status" =>
        /\ "reading" \in applied.input => applied.out = "in_progress"
        /\ "wantRead" \in applied.input => applied.out = "wishlist"
        /\ applied.input = {} => applied.out = "completed"

\* The aliases of a property that hold a non-empty value
NonEmptyAt(values) == {i \in DOMAIN values : values[i] # Undef /\ values[i].elems # <<>>}

\* C25: the title is the text of the first alias, in priority order, whose
\* upstream value is non-empty, an earlier alias that is present but empty
\* notwithstanding; likewise the slug.
C25_FirstNonEmptyAlias ==
    applied.fn = "properties" =>
        /\ NonEmptyAt(applied.input.title) # {} =>
                \E i \in NonEmptyAt(applied.input.title) :
                    /\ \A j \in NonEmptyAt(applied.input.title) : i <= j
                    /\ applied.out.title = applied.input.title[i].elems[1]
        /\ NonEmptyAt(applied.input.slug) # {} =>
                \E i \in NonEmptyAt(applied.input.slug) :
                    /\ \A j \in NonEmptyAt(applied.input.slug) : i <= j
                    /\ applied.out.slug = applied.input.slug[i].elems[1]

\* C26: calculateReadingTime is the least whole number of minutes, at least
\* 1, that covers c/400 + w/200: 800 ideographs give 2, 50 words give 1, the
\* empty text gives 1.
C26_ReadingTime ==
    applied.fn = "readingTime" =>
        LET c == chineseChars(applied.input)
            w == words(applied.input, 1, FALSE)
            out == applied.out
        IN /\ out >= 1
           /\ 400 * out >= c + 2 * w
           /\ out > 1 => 400 * (out - 1) < c + 2 * w
           /\ applied.input = <<Run("han", 800)>> => out = 2
           /\ applied.input = <<Run("words", 50)>> => out = 1
           /\ applied.input = <<>> => out = 1

\* 400 ideographs and then 50 words: one minute and a quarter, so 2.
C26_Witness ==
    /\ applied.fn = "readingTime"
    /\ applied.input = <<Run("han", 400), Run("words", 50)>>
    /\ applied.out = 2

\* What reading field k of object o gives
ReadField(o, k) == IF k \in DOMAIN o.fields THEN o.fields[k] ELSE Undef

\* Two values read the same: field by field, element by element, Dates by
\* their time
RECURSIVE SameValue(_, _)
SameValue(a, b) ==
    IF a.kind # b.kind THEN FALSE
    ELSE IF a.kind = "Object"
         THEN \A k \in DOMAIN a.fields \cup DOMAIN b.fields :
                  SameValue(ReadField(a, k), ReadField(b, k))
    ELSE IF a.kind = "Array"
         THEN /\ Len(a.elems) = Len(b.elems)
              /\ \A i \in DOMAIN a.elems : SameValue(a.elems[i], b.elems[i])
    ELSE a = b

\* The items of a list as the feed sort sees them
SortKeys(list) ==
    [i \in DOMAIN list.elems |->
        FeedItem(list.elems[i].fields.id.txt, list.elems[i].fields.date.ms, i)]

FreshFeeds ==
    {SortByDateDesc(Merge(got)) :
        got \in {g \in [Adapters -> UNION {AdapterResults(a) : a \in Adapters}] :
                    \A a \in Adapters : g[a] \in AdapterResults(a)}}

\* An in-process cache is empty or holds one of `real`
HoldsNothingOr(cache, real) ==
    cache = EmptyCache \/ (cache.cachedData.kind = "Array" /\ cache.cachedData.elems \in real)

\* The in-process caches hold nothing or what a fetch from the adapters gave
CachesHoldFetched ==
    /\ HoldsNothingOr(feedItemsCache, FreshFeeds)
    /\ HoldsNothingOr(currentItemsCache, DoubanCurrentResults \ {<<>>})
    /\ HoldsNothingOr(archiveItemsCache,
                      {getArchiveGroups(articles).groups : articles \in AllArticlesResults})
    /\ mockFeedItems \notin FreshFeeds
    /\ mockCurrentItems \notin DoubanCurrentResults
    /\ mockArchiveGroups \notin
            {getArchiveGroups(articles).groups : articles \in AllArticlesResults}

\* A step in which a call returns the fallback leaves the three caches as
\* they were; a call that begins while its cache gives nothing is not served
\* from the cache: it returns the fallback at the gate or awaits the adapters.
FallbackLeavesCaches ==
    /\ \A c \in FeedCallIds :
            /\ (feedCalls[c].pc # "done" /\ feedCalls'[c].pc = "done"
                    /\ feedCalls'[c].from \in {"mock", "catch"}) =>
                    /\ feedCalls'[c].ret = mockFeedItems
                    /\ UNCHANGED <<feedItemsCache, currentItemsCache, archiveItemsCache>>
            /\ (feedCalls[c].pc = "idle" /\ feedCalls'[c].pc # "idle"
                    /\ CacheGet(feedItemsCache, now) = NullV) =>
                    /\ feedCalls'[c].from # "cache"
                    /\ feedCalls'[c].pc = "await" <=>
                            (~feedCalls'[c].useMock /\ ConfiguredAdapters # {})
    /\ \A f \in {"current", "archive"} :
            LET cache == IF f = "current" THEN currentItemsCache ELSE archiveItemsCache
                fallback == IF f = "current" THEN mockCurrentItems ELSE mockArchiveGroups
                configured == IF f = "current" THEN shouldUseDouban ELSE shouldUseRealAPI
            IN  /\ (indexCall'[f] # indexCall[f] /\ indexCall'[f].pc = "done"
                        /\ indexCall'[f].from \in {"mock", "empty", "catch"}) =>
                        /\ indexCall'[f].ret = fallback
                        /\ UNCHANGED <<feedItemsCache, currentItemsCache, archiveItemsCache>>
                /\ (indexCall[f].pc # "await" /\ indexCall'[f] # indexCall[f]
                        /\ CacheGet(cache, now) = NullV) =>
                        /\ indexCall'[f].from # "cache"
                        /\ indexCall'[f].pc = "await" <=> configured

\* C28: the fallback dataset is never written to an in-process cache: each of
\* the three caches is empty or holds what a successful fetch from the
\* adapters gave, a call that returns the fallback (not configured, useMock,
\* an adapter's exception, an empty currently-consuming list) leaves the
\* caches unchanged, and the next call looks at the configuration and the
\* adapters again.
C28_FallbackNeverCached ==
    []CachesHoldFetched /\ [][FallbackLeavesCaches]_vars

\* Each entry point has returned the fallback (the feed after an adapter's
\* exception, the sidebar for an empty list, the archive after a rejected
\* fetch) and the three caches are still empty.
C28_Witness ==
    /\ \E c \in FeedCallIds : feedCalls[c].pc = "done" /\ feedCalls[c].from = "catch"
    /\ indexCall["current"].pc = "done" /\ indexCall["current"].from = "empty"
    /\ indexCall["archive"].pc = "done" /\ indexCall["archive"].from = "catch"
    /\ feedItemsCache = EmptyCache
    /\ currentItemsCache = EmptyCache
    /\ archiveItemsCache = EmptyCache

\* A step in which a producer's exception reaches withKVCache: the call ends
\* with that exception, no kv.put is dispatched, the store is as it was.
ThrowLeavesStore ==
    \A c \in CallIds :
        (calls[c].pc \in {"fetch", "direct"} /\ calls'[c].pc # calls[c].pc
            /\ calls'[c].prod = Undef) =>
            /\ calls'[c].pc = "threw" /\ calls'[c].threwBy = "producer"
            /\ calls'[c].setRes = "none"
            /\ UNCHANGED <<puts, store>>

\* C29 (as stated): a producer's exception leaves withKVCache, no write-back
\* is dispatched and the store is unchanged; every call for the key that
\* begins later misses and invokes the producer.
C29_Original ==
    /\ [][ThrowLeavesStore]_vars
    /\ [](\A d \in afterFailure :
            calls[d].pc \notin {"idle", "get"} =>
                calls[d].seen.st # "held" /\ calls[d].n = 1)

\* C29 (amended): the same, and a call for the key that begins later hits
\* only on an entry that another call, whose producer resolved, wrote back;
\* when its read finds no entry it invokes the producer.
C29_ThrowWritesNothing ==
    /\ [][ThrowLeavesStore]_vars
    /\ [](\A d \in afterFailure :
            calls[d].pc \notin {"idle", "get"} =>
                IF calls[d].seen.st = "held"
                THEN /\ calls[calls[d].seen.by].threwBy # "producer"
                     /\ calls[calls[d].seen.by].prod # Undef
                     /\ calls[d].n = 0
                ELSE calls[d].n = 1)

\* The first call's producer threw, and the call that began afterwards found
\* nothing in the store and invoked its producer.
C29_Witness ==
    /\ calls[1].pc = "threw" /\ calls[1].threwBy = "producer"
    /\ 2 \in afterFailure
    /\ calls[2].seen.st = "absent"
    /\ calls[2].n = 1
    /\ calls[2].pc = "done"

\* The cached reads that are past their store read
PastRead == {d \in CallIds : calls[d].op \in Readers /\ calls[d].pc \notin {"idle", "get"}}

\* No call returns null from the store: a read that finds a stored null (or
\* nothing) invokes the producer, and a read that finds an unexpired entry
\* that is not null, the empty list included, returns it and invokes nothing.
NullReadsAsMiss ==
    \A d \in PastRead :
        IF calls[d].seen.st = "held" /\ calls[d].seen.json # NullV
        THEN /\ calls[d].n = 0
             /\ calls[d].pc = "done"
             /\ calls[d].ret = reviveDates(calls[d].seen.json)
        ELSE calls[d].n = 1

\* C30 (as stated): a null producer result is never served from the store,
\* every fetchArticle call for the id that begins after the producer gave
\* null invokes the producer, and a stored result that is not null is served.
C30_Original ==
    /\ NullReadsAsMiss
    /\ \A d \in afterFailure \cap PastRead : calls[d].n = 1

\* C30 (amended): a null producer result is never served from the store: a
\* fetchArticle call that begins after the producer gave null invokes the
\* producer unless its read finds an entry that is not null, written back by
\* another call whose producer gave the article; a stored result that is not
\* null is served to every read that finds it unexpired.
C30_NullNeverServed ==
    /\ NullReadsAsMiss
    /\ \A d \in afterFailure \cap PastRead :
            calls[d].n = 0 =>
                /\ calls[d].seen.st = "held"
                /\ calls[calls[d].seen.by].prod # NullV
                /\ calls[d].ret # NullV

\* The first call's producer gave null and the null was written back; the
\* call that began afterwards found the stored null and invoked its producer.
C30_Witness ==
    /\ calls[1].prod = NullV /\ calls[1].setRes = "ok"
    /\ 2 \in afterFailure
    /\ calls[2].seen.st = "held" /\ calls[2].seen.json = NullV
    /\ calls[2].n = 1
    /\ calls[2].pc = "done"

====
